---- MODULE Spec2Model ----
(***************************************************************************)
(* Telemetry ingestion (src/ingestor/main.py), anomaly sweep               *)
(* (src/alert_monitor.py) and alert history aggregation                    *)
(* (src/backend/app/services/alerts_service.py) of Project-BICPV.          *)
(*                                                                         *)
(* Time is counted in minutes.  A nullable column or Python None is the    *)
(* empty sequence <<>>, a present number x is <<x>>.  Values are integers. *)
(***************************************************************************)
EXTENDS Integers, Sequences, FiniteSets, TLC

VARIABLES
    now,            \* wall clock / NOW(), minutes
    ingPc,          \* ingestor main(): "connecting" | "consuming" | "writing" | "sleeping" | "terminated" | "cancelled"
    attempt,        \* connection failures since the last successful connection (history)
    delay,          \* seconds of the reconnection sleep in progress, 0 when connected
    conns,          \* redis_conn and pg_pool of main(): "open" | "closed"
    msgCount,       \* number of transport messages delivered so far
    cur,            \* locals of the handle_payload call in progress
    last,           \* what happened to the last message handled (history)
    cache,          \* Redis: key -> (sensor_name -> entry)
    measurements,   \* TimescaleDB table measurements, in insertion order
    swPc,           \* alert monitor main(): "check_fetch" | "check_insert" | "inactive" | "cleanup" | "sleep" | "terminated"
    wakeAt,         \* end of the monitor's asyncio.sleep
    rows,           \* check_for_anomalies: rows fetched
    alerts_to_insert, \* check_for_anomalies: alerts built from rows
    tableAtFetch,   \* the measurements table as it was when rows was fetched (history)
    fetchedAt,      \* NOW() of the query that fetched rows (history)
    checkOk,        \* whether the last completed anomaly check ran without exception (history)
    alerts,         \* table alerts, in insertion order
    uptime,         \* asyncio.get_event_loop().time(): the monotonic clock, minutes
    current_time,   \* alert monitor main(): the clock read at the top of the iteration
    last_inactive_check, \* alert monitor main()
    last_cleanup,   \* alert monitor main()
    done,           \* what each operation of the monitor did last (history)
    purged,         \* the rows the last cleanup deleted (history)
    req,            \* the last call of the alerts service and its arguments (history)
    anomalies,      \* result of the last get_anomalies_by_threshold call
    history,        \* result of the last get_alert_history call
    response        \* answer of the last call of an endpoint or of the cache controller

vars == <<now, ingPc, attempt, delay, conns, msgCount, cur, last, cache, measurements, swPc, wakeAt,
          rows, alerts_to_insert, tableAtFetch, fetchedAt, checkOk, alerts,
          uptime, current_time, last_inactive_check, last_cleanup, done, purged,
          req, anomalies, history, response>>

ingVars == <<ingPc, attempt, delay, conns, msgCount, cur, last, cache>>
swVars  == <<swPc, wakeAt, rows, alerts_to_insert, tableAtFetch, fetchedAt, checkOk,
            alerts, current_time, last_inactive_check, last_cleanup, done, purged>>
apiVars == <<req, anomalies, history, response>>

(***************************************************************************)
(* Bounds of the model                                                     *)
(***************************************************************************)
MaxTime == 6        \* the clock runs FirstMinute..MaxTime
MaxMsgs == 2        \* transport messages delivered in one run
MaxStoreRows == 3   \* rows of a measurements table drawn as an input
MaxLimit == 3       \* largest `limit` argument tried
MaxAttempts == 2    \* consecutive failed connection attempts
MaxRepeatTime == 17 \* last minute of the clock of SpecRepeat
MaxCadenceMinutes == 12 \* minutes of each day that SpecCadence follows one by one
MaxDays == 1        \* days that pass in SpecCadence
MaxCheckMinutes == 1 \* longest duration of the checks of one iteration in SpecCadence
MaxFeedRows == 2     \* rows of the measurements table in SpecFeed

(***************************************************************************)
(* Program constants                                                       *)
(***************************************************************************)
WINDOW_MINUTES == 5          \* INTERVAL '5 minutes'
SEVERITY_DISTANCE == 5       \* abs(value - bound) < 5
SLEEP_MINUTES == 1           \* anomaly_check_interval = 60 s
RECONNECT_INTERVAL == 5      \* reconnect_interval = 5, seconds
INACTIVE_CHECK_INTERVAL == 5 \* inactive_check_interval = 300 s
CLEANUP_INTERVAL == 1440     \* cleanup_interval = 86400 s
INACTIVE_MINUTES == 10       \* INTERVAL '10 minutes'
RETENTION_MINUTES == 43200   \* INTERVAL '30 days'
MINUTES_PER_HOUR == 60

\* The clock starts late enough for a source timestamp of minute 0 to be
\* inside the anomaly window at first and to fall out of it later.
FirstMinute == WINDOW_MINUTES

None == <<>>
Some(x) == <<x>>
IsNone(v) == v = <<>>
Val(v) == v[1]

Abs(x) == IF x < 0 THEN -x ELSE x

(***************************************************************************)
(* Threshold tables                                                        *)
(***************************************************************************)
MONITOR_ALERT_THRESHOLDS ==
    ("Temperatura_Ambiente" :> [min |-> -10, max |-> 50]) @@
    ("Irradiancia"          :> [min |-> 0,   max |-> 1500]) @@
    ("Velocidad_Viento"     :> [min |-> 0,   max |-> 30]) @@
    ("Humedad"              :> [min |-> 0,   max |-> 100]) @@
    ("T_ValvulaExpansion"   :> [min |-> -50, max |-> 50]) @@
    ("T_EntCompresor"       :> [min |-> -50, max |-> 80]) @@
    ("T_SalCompresor"       :> [min |-> -50, max |-> 100]) @@
    ("T_SalCondensador"     :> [min |-> -50, max |-> 80]) @@
    ("T_Entrada_Agua"       :> [min |-> -10, max |-> 60]) @@
    ("T_Salida_Agua"        :> [min |-> -10, max |-> 60]) @@
    ("Presion_Alta"         :> [min |-> 0,   max |-> 500]) @@
    ("Presion_Baja"         :> [min |-> 0,   max |-> 30]) @@
    ("Flujo_Agua_LPM"       :> [min |-> 0,   max |-> 500])

SERVICE_ALERT_THRESHOLDS ==
    ("Temperatura_Ambiente" :> [min |-> -10, max |-> 50]) @@
    ("Irradiancia"          :> [min |-> 0,   max |-> 1500]) @@
    ("Velocidad_Viento"     :> [min |-> 0,   max |-> 30]) @@
    ("Humedad"              :> [min |-> 0,   max |-> 100]) @@
    ("T_ValvulaExpansion"   :> [min |-> -50, max |-> 50]) @@
    ("T_EntCompresor"       :> [min |-> -50, max |-> 80]) @@
    ("T_SalCompresor"       :> [min |-> -50, max |-> 100]) @@
    ("T_SalCondensador"     :> [min |-> -50, max |-> 80]) @@
    ("T_Entrada_Agua"       :> [min |-> -10, max |-> 60]) @@
    ("T_Salida_Agua"        :> [min |-> -10, max |-> 60]) @@
    ("Presion_Alta"         :> [min |-> 0,   max |-> 50]) @@
    ("Presion_Baja"         :> [min |-> 0,   max |-> 30]) @@
    ("Flujo_Agua_LPM"       :> [min |-> 0,   max |-> 500])

(***************************************************************************)
(* Sequence helpers                                                        *)
(***************************************************************************)
Take(s, n) == IF Len(s) <= n THEN s ELSE SubSeq(s, 1, n)

\* all orders in which a query may return the rows of s so that leq holds
\* between neighbours (SQL leaves the order of ties, and of a query without
\* ORDER BY, open)
Orderings(s, leq(_, _)) ==
    LET n == Len(s)
        perms == {p \in [1..n -> 1..n] : \A i, j \in 1..n : i # j => p[i] # p[j]}
    IN  {[i \in 1..n |-> s[p[i]]] : p \in
            {q \in perms : \A i \in 1..n : i < n => leq(s[q[i]], s[q[i + 1]])}}

TsDesc(a, b) == a.ts >= b.ts
AnyOrder(a, b) == TRUE

(***************************************************************************)
(* JSON payloads.  A raw JSON value is [t, v]: t = "num" (the number v),   *)
(* "numstr" (a string holding the number v), "text" (any other string) or  *)
(* "null".  The ts field is [t, mm, sfx]: t = "absent", "num" (a JSON      *)
(* number) or "str"; a string denotes minute mm with offset suffix sfx,    *)
(* and mm = -1 stands for text that is no ISO-8601 timestamp.  The data    *)
(* field is [t, d]: t = "absent", "null", "list" (a non-empty JSON list)   *)
(* or "dict" with d the sequence of its (k, v) items in document order.    *)
(***************************************************************************)
Num(x) == [t |-> "num", v |-> x]
Text == [t |-> "text", v |-> 0]
Null == [t |-> "null", v |-> 0]
\* a JSON integer that json.loads turns into an int beyond the range of a
\* float (310 digits)
BigInt == [t |-> "bigint", v |-> 0]

Item(k, v) == [k |-> k, v |-> v]

Envelope(ts, data) ==
    [ts |-> ts, facade_id |-> "1", device_id |-> "d1",
     facade_type |-> "no_refrigerada", data |-> data]

TsAbsent == [t |-> "absent", mm |-> 0, sfx |-> ""]
TsMinute0 == [t |-> "str", mm |-> 0, sfx |-> "Z"]
TsMalformed == [t |-> "str", mm |-> -1, sfx |-> ""]
TsNumber == [t |-> "num", mm |-> 0, sfx |-> ""]

DataInvalidPair ==
    [t |-> "dict", d |-> <<Item("Irradiancia", Num(-1)), Item("Otro", Text)>>]
DataIrradiancia1600 ==
    [t |-> "dict", d |-> <<Item("Irradiancia", Num(1600))>>]

DataOverflowPair ==
    [t |-> "dict", d |-> <<Item("Irradiancia", Num(1600)), Item("Otro", BigInt)>>]

DataInputs ==
    { [t |-> "absent", d |-> <<>>],
      [t |-> "dict", d |-> <<>>],
      [t |-> "list", d |-> <<>>],
      DataInvalidPair,
      DataIrradiancia1600 }

\* the payloads delivered: every data field under a good timestamp, and the
\* sensor mappings under every timestamp field
Payloads ==
    {Envelope(TsMinute0, data) : data \in DataInputs}
    \cup {Envelope(ts, DataInvalidPair) : ts \in {TsAbsent, TsMalformed, TsNumber}}
    \cup {Envelope(TsAbsent, DataIrradiancia1600)}
    \cup {Envelope(TsMinute0, DataOverflowPair)}

(***************************************************************************)
(* handle_payload, lines 52-70: decoding and validation                    *)
(***************************************************************************)
\* ts_str after payload.get("ts", utcnow().isoformat() + "Z") and the
\* replacement of a final "Z"; only called for a string
TsStr(ts, t) ==
    LET got == IF ts.t = "absent" THEN [t |-> "str", mm |-> t, sfx |-> "Z"] ELSE ts
    IN  IF got.sfx = "Z" THEN [got EXCEPT !.sfx = "+00:00"] ELSE got

\* datetime.fromisoformat: the minute denoted, or ValueError
FromIsoFormat(s) ==
    IF s.mm >= 0 /\ s.sfx \in {"", "+00:00"}
    THEN [ok |-> TRUE, dt |-> s.mm]
    ELSE [ok |-> FALSE, dt |-> 0]

\* Python truth value of payload.get("data", {})
Truthy(data) ==
    CASE data.t = "dict" -> Len(data.d) > 0
      [] data.t = "list" -> TRUE
      [] OTHER -> FALSE

\* outcome of lines 52-70: "raise" (with exc), "discard" or "proceed"
Decode(payload, t) ==
    IF payload.ts.t = "num"
    THEN [kind |-> "raise", exc |-> "AttributeError", ts_str |-> payload.ts, ts_dt |-> 0]
    ELSE LET ts_str == TsStr(payload.ts, t)
             parsed == FromIsoFormat(ts_str)
         IN  IF ~parsed.ok
             THEN [kind |-> "discard", exc |-> "", ts_str |-> ts_str, ts_dt |-> 0]
             ELSE IF ~Truthy(payload.data)
                  THEN [kind |-> "discard", exc |-> "", ts_str |-> ts_str, ts_dt |-> parsed.dt]
                  ELSE [kind |-> "proceed", exc |-> "", ts_str |-> ts_str, ts_dt |-> parsed.dt]

(***************************************************************************)
(* handle_payload, lines 72-87: the cache write                            *)
(***************************************************************************)
\* names bound at module level by the import statements of the ingestor
IngestorGlobals ==
    {"os", "json", "asyncio", "logging", "datetime", "asyncpg", "aioredis",
     "Client", "MqttError", "log"}

\* what leaves the try statement of lines 74-87 when exc is raised inside it:
\* "" when the except clause catches it, otherwise the exception that
\* propagates.  Matching the clause first evaluates redis.exceptions.RedisError.
CacheExcept(exc) ==
    IF "redis" \notin IngestorGlobals THEN "NameError"
    ELSE IF exc = "RedisError" THEN "" ELSE exc

\* the exception raised inside the try body, "" if none
CacheTryBody(data, redisOk) ==
    IF data.t # "dict" THEN "AttributeError"
    ELSE IF ~redisOk THEN "RedisError"
    ELSE ""

\* the JSON entry stored for one sensor (lines 77-82): the raw value, ts_str
CacheEntry(value, ts_str, device_id, facade_type) ==
    [value |-> value, ts |-> ts_str, device_id |-> device_id,
     facade_type |-> facade_type]

\* a write that replaces the hash of the facade by the entries of the message
HSetAllReplacing(hash, items, ts_str, device_id, facade_type) ==
    LET names == {items[i].k : i \in DOMAIN items}
    IN  [k \in names |->
            CacheEntry((CHOOSE it \in {items[i] : i \in DOMAIN items} : it.k = k).v,
                       ts_str, device_id, facade_type)]

RECURSIVE HSetAll(_, _, _, _, _)
\* the hash after pipe.hset(key, sensor_name, entry) for every item, in order
HSetAll(hash, items, ts_str, device_id, facade_type) ==
    IF items = <<>> THEN hash
    ELSE HSetAll((Head(items).k :>
                    CacheEntry(Head(items).v, ts_str, device_id, facade_type)) @@ hash,
                 Tail(items), ts_str, device_id, facade_type)

\* the Redis key of line 73
CacheKey(facade_id) == <<"facade", facade_id, "latest">>

(***************************************************************************)
(* handle_payload, lines 89-112: the durable write                         *)
(***************************************************************************)
\* a coercion that fails for every value
FloatNeverNumeric(raw) == None

\* float(value) with ValueError and TypeError turned into None (lines 92-96)
Float(raw) ==
    IF raw.t \in {"num", "numstr"} THEN Some(raw.v) ELSE None

\* what float(value) raises past the except clause of line 94, which names
\* ValueError and TypeError: the OverflowError of an int too large for a float
FloatExcept(raw) == IF raw.t = "bigint" THEN "OverflowError" ELSE ""

\* one row of measurements; mid is the number of the message that wrote it
\* and of the number of sensor entries of that message (history, no columns
\* of the table)
Record(mid, of, facade_id, device_id, facade_type, sensor_name, val, ts_dt) ==
    [mid |-> mid, of |-> of, facade_id |-> facade_id, device_id |-> device_id,
     facade_type |-> facade_type, sensor_name |-> sensor_name, value |-> val,
     ts |-> ts_dt]

\* the list `records` of lines 90-97
Records(c) ==
    [i \in 1..Len(c.data) |->
        Record(c.mid, Len(c.data), c.facade_id, c.device_id, c.facade_type, c.data[i].k,
               Float(c.data[i].v), c.ts_dt)]

\* what leaves the loop of lines 90-97: "" or the exception of a float(value)
RecordsExcept(c) ==
    IF \E i \in DOMAIN c.data : FloatExcept(c.data[i].v) # ""
    THEN "OverflowError" ELSE ""

\* without the transaction the rows before the failing one would stay
InsertedRowsPartial(records, pg) ==
    IF pg = "ok" THEN records ELSE SubSeq(records, 1, Len(records) - 1)

\* the rows that executemany inside conn.transaction() leaves in the table
\* when the statement outcome is pg: all of them or none
InsertedRows(records, pg) ==
    IF pg = "ok" THEN records ELSE <<>>

\* a durable write without the except clause of line 111
DurableExceptNothing(pg) == IF pg = "ok" THEN "" ELSE pg

\* what leaves the try statement of lines 100-112: "" or the exception
DurableExcept(pg) ==
    IF pg \in {"ok", "PostgresError"} THEN "" ELSE pg

(***************************************************************************)
(* main() of the ingestor, lines 142-164                                   *)
(***************************************************************************)
\* classes derived from Exception (KeyboardInterrupt and CancelledError are not)
ExceptionClasses ==
    {"JSONDecodeError", "UnicodeDecodeError", "AttributeError", "NameError",
     "RedisError", "PostgresError", "InterfaceError", "MqttError", "OSError",
     "OverflowError"}

\* a message loop that catches json.JSONDecodeError only
InnerCaughtJsonOnly(exc) == exc = "JSONDecodeError"

\* the except clauses of lines 154-157 around one message
InnerCaught(exc) == exc = "JSONDecodeError" \/ exc \in ExceptionClasses

\* the except clauses of lines 159-164 around the connection
OuterCaught(exc) == exc = "MqttError" \/ exc \in ExceptionClasses

\* where main() is after exc was raised while a message was handled
AfterMessageError(exc) ==
    IF InnerCaught(exc) THEN "consuming"
    ELSE IF OuterCaught(exc) THEN "sleeping"
    ELSE "terminated"

\* where main() is after exc was raised by the client (connect, subscribe,
\* or the message iterator)
AfterTransportError(exc) ==
    IF OuterCaught(exc) THEN "sleeping" ELSE "terminated"

NoCall ==
    [mid |-> 0, facade_id |-> "", device_id |-> "", facade_type |-> "",
     ts_dt |-> 0, data |-> <<>>]

NoPayload ==
    [ts |-> [t |-> "absent", mm |-> 0, sfx |-> ""], facade_id |-> "",
     device_id |-> "", facade_type |-> "", data |-> [t |-> "absent", d |-> <<>>]]

NoLast ==
    [mid |-> 0, payload |-> NoPayload, json |-> "none", decode |-> "none", cache |-> "none",
     durable |-> "none", raised |-> "", next |-> "none"]

(***************************************************************************)
(* Actions of the ingestor                                                 *)
(***************************************************************************)
\* lines 161 and 164: asyncio.sleep(reconnect_interval) after the attempt-th
\* consecutive failure
ReconnectDelay(n) == RECONNECT_INTERVAL

\* lines 144-147: connect and subscribe
Connect ==
    /\ ingPc = "connecting"
    /\ \E exc \in {"", "MqttError", "OSError"} :
         /\ exc # "" => attempt < MaxAttempts
         /\ ingPc' = IF exc = "" THEN "consuming" ELSE AfterTransportError(exc)
         /\ attempt' = IF exc = "" THEN 0 ELSE attempt + 1
         /\ delay' = IF exc = "" THEN 0 ELSE ReconnectDelay(attempt + 1)
    /\ UNCHANGED <<now, uptime, conns, msgCount, cur, last, cache, measurements, swVars,
                   apiVars>>

\* lines 161, 164: the sleep before the next connection attempt ends
Reconnect ==
    /\ ingPc = "sleeping"
    /\ ingPc' = "connecting"
    /\ UNCHANGED <<now, uptime, attempt, delay, conns, msgCount, cur, last, cache,
                   measurements, swVars, apiVars>>

\* line 150: the message iterator raises MqttError
TransportError ==
    /\ ingPc = "consuming"
    /\ ingPc' = AfterTransportError("MqttError")
    /\ attempt' = attempt + 1
    /\ delay' = ReconnectDelay(attempt + 1)
    /\ UNCHANGED <<now, uptime, conns, msgCount, cur, last, cache, measurements, swVars,
                   apiVars>>

\* where main() is after the task running it is cancelled while it is at pc:
\* CancelledError derives from BaseException, and the statements after the
\* while loop (lines 166-173) are not reached
AfterCancel(pc) ==
    IF pc = "writing" /\ InnerCaught("CancelledError") THEN "consuming"
    ELSE IF OuterCaught("CancelledError") THEN "sleeping"
    ELSE "cancelled"

\* a shutdown signal: asyncio.run cancels main(), and CancelledError is raised
\* at the await it is suspended in
Shutdown ==
    /\ ingPc \in {"connecting", "consuming", "writing", "sleeping"}
    /\ ingPc' = AfterCancel(ingPc)
    /\ last' = IF ingPc = "writing"
               THEN [last EXCEPT !.durable = "cancelled", !.raised = "CancelledError",
                                 !.next = AfterCancel(ingPc)]
               ELSE last
    /\ cur' = NoCall
    /\ UNCHANGED <<now, uptime, attempt, delay, conns, msgCount, cache, measurements,
                   swVars, apiVars>>

\* a message iterator that hands over the next message while a
\* handle_payload call is still in progress
IteratorReadyWhileHandling == ingPc \in {"consuming", "writing"}

\* lines 150-153: the async for statement asks the iterator for the next
\* message only when its body, which awaits handle_payload, has finished
IteratorReady == ingPc = "consuming"

\* line 152: json.loads raises on the message received
ReceiveBadJson ==
    /\ IteratorReady
    /\ msgCount < MaxMsgs
    /\ msgCount' = msgCount + 1
    /\ ingPc' = AfterMessageError("JSONDecodeError")
    /\ last' = [NoLast EXCEPT !.mid = msgCount + 1, !.json = "bad",
                              !.next = AfterMessageError("JSONDecodeError")]
    /\ UNCHANGED <<now, uptime, attempt, delay, conns, cur, cache, measurements, swVars,
                   apiVars>>

\* lines 152-153 and 52-87: a message is received, decoded and validated, and
\* its readings are written to the cache in one pipeline
ReceivePayload ==
    /\ IteratorReady
    /\ msgCount < MaxMsgs
    /\ \E payload \in Payloads, redisOk \in BOOLEAN :
         LET mid == msgCount + 1
             dec == Decode(payload, now)
             bodyExc == CacheTryBody(payload.data, redisOk)
             out == IF bodyExc = "" THEN "" ELSE CacheExcept(bodyExc)
             key == CacheKey(payload.facade_id)
             old == IF key \in DOMAIN cache THEN cache[key] ELSE <<>>
             base == [NoLast EXCEPT !.mid = mid, !.payload = payload, !.json = "ok",
                                    !.decode = dec.kind]
         IN  /\ msgCount' = mid
             /\ IF dec.kind = "raise"
                THEN /\ ingPc' = AfterMessageError(dec.exc)
                     /\ last' = [base EXCEPT !.raised = dec.exc,
                                             !.next = AfterMessageError(dec.exc)]
                     /\ UNCHANGED <<cur, cache>>
                ELSE IF dec.kind = "discard"
                THEN /\ ingPc' = "consuming"
                     /\ last' = [base EXCEPT !.next = "consuming"]
                     /\ UNCHANGED <<cur, cache>>
                ELSE /\ cache' = IF bodyExc = ""
                                 THEN (key :> HSetAll(old, payload.data.d, dec.ts_str,
                                                      payload.device_id,
                                                      payload.facade_type)) @@ cache
                                 ELSE cache
                     /\ IF out # ""
                        THEN /\ ingPc' = AfterMessageError(out)
                             /\ last' = [base EXCEPT !.cache = "failed",
                                                     !.durable = "not_attempted",
                                                     !.raised = out,
                                                     !.next = AfterMessageError(out)]
                             /\ UNCHANGED cur
                        ELSE /\ ingPc' = "writing"
                             /\ last' = [base EXCEPT
                                           !.cache = IF bodyExc = "" THEN "written"
                                                     ELSE "failed",
                                           !.durable = "pending"]
                             /\ cur' = [mid |-> mid, facade_id |-> payload.facade_id,
                                        device_id |-> payload.device_id,
                                        facade_type |-> payload.facade_type,
                                        ts_dt |-> dec.ts_dt, data |-> payload.data.d]
    /\ UNCHANGED <<now, uptime, attempt, delay, conns, measurements, swVars, apiVars>>

\* lines 89-112: the records are built and inserted in one transaction; an
\* exception of the loop that builds them leaves handle_payload before the
\* insert
DurableWrite ==
    /\ ingPc = "writing"
    /\ IF RecordsExcept(cur) # ""
       THEN /\ ingPc' = AfterMessageError(RecordsExcept(cur))
            /\ last' = [last EXCEPT !.durable = "not_attempted",
                                    !.raised = RecordsExcept(cur),
                                    !.next = AfterMessageError(RecordsExcept(cur))]
            /\ UNCHANGED measurements
       ELSE \E pg \in {"ok", "PostgresError", "InterfaceError"} :
              LET out == DurableExcept(pg)
                  next == IF out = "" THEN "consuming" ELSE AfterMessageError(out)
              IN  /\ measurements' = measurements \o InsertedRows(Records(cur), pg)
                  /\ ingPc' = next
                  /\ last' = [last EXCEPT
                                !.durable = IF pg = "ok" THEN "inserted" ELSE "failed",
                                !.raised = out, !.next = next]
    /\ cur' = NoCall
    /\ UNCHANGED <<now, uptime, attempt, delay, conns, msgCount, cache, swVars, apiVars>>

(***************************************************************************)
(* check_for_anomalies of the alert monitor, lines 47-132                  *)
(***************************************************************************)
\* the comparison with the distance itself let in
MonitorSeverityInclusive(value, bound) ==
    IF Abs(value - bound) <= SEVERITY_DISTANCE THEN "warning" ELSE "critical"

\* lines 89 and 100: the severity of a threshold alert
MonitorSeverity(value, bound) ==
    IF Abs(value - bound) < SEVERITY_DISTANCE THEN "warning" ELSE "critical"

Alert(facade_id, sensor_name, alert_type, severity, value, threshold) ==
    [facade_id |-> facade_id, sensor_name |-> sensor_name, alert_type |-> alert_type,
     severity |-> severity, value |-> value, threshold |-> threshold]

\* the loop body without the `continue` of line 78: a negative value goes on
\* to the threshold comparison
RowAlertsNoContinue(row) ==
    (IF IsNone(row.value) \/ Val(row.value) < 0
     THEN <<Alert(row.facade_id, row.sensor_name, "sensor_error", "critical",
                  row.value, None)>>
     ELSE <<>>)
    \o (IF ~IsNone(row.value) /\ row.sensor_name \in DOMAIN MONITOR_ALERT_THRESHOLDS
        THEN LET threshold == MONITOR_ALERT_THRESHOLDS[row.sensor_name]
                 value == Val(row.value)
             IN  IF value < threshold.min
                 THEN <<Alert(row.facade_id, row.sensor_name, "value_below_threshold",
                              IF Abs(value - threshold.min) < SEVERITY_DISTANCE
                              THEN "warning" ELSE "critical",
                              row.value, Some(threshold.min))>>
                 ELSE IF value > threshold.max
                 THEN <<Alert(row.facade_id, row.sensor_name, "value_above_threshold",
                              IF Abs(value - threshold.max) < SEVERITY_DISTANCE
                              THEN "warning" ELSE "critical",
                              row.value, Some(threshold.max))>>
                 ELSE <<>>
        ELSE <<>>)

\* the alerts of one row when only a NULL value counts as invalid
RowAlertsNullOnly(row) ==
    IF IsNone(row.value)
    THEN <<Alert(row.facade_id, row.sensor_name, "sensor_error", "critical",
                 row.value, None)>>
    ELSE IF row.sensor_name \in DOMAIN MONITOR_ALERT_THRESHOLDS
    THEN LET threshold == MONITOR_ALERT_THRESHOLDS[row.sensor_name]
             value == Val(row.value)
         IN  IF value < threshold.min
             THEN <<Alert(row.facade_id, row.sensor_name, "value_below_threshold",
                          MonitorSeverity(value, threshold.min), row.value,
                          Some(threshold.min))>>
             ELSE IF value > threshold.max
             THEN <<Alert(row.facade_id, row.sensor_name, "value_above_threshold",
                          MonitorSeverity(value, threshold.max), row.value,
                          Some(threshold.max))>>
             ELSE <<>>
    ELSE <<>>

\* lines 62-104: what one row appends to alerts_to_insert
RowAlerts(row) ==
    IF IsNone(row.value) \/ Val(row.value) < 0
    THEN <<Alert(row.facade_id, row.sensor_name, "sensor_error", "critical",
                 row.value, None)>>
    ELSE IF row.sensor_name \in DOMAIN MONITOR_ALERT_THRESHOLDS
    THEN LET threshold == MONITOR_ALERT_THRESHOLDS[row.sensor_name]
             value == Val(row.value)
         IN  IF value < threshold.min
             THEN <<Alert(row.facade_id, row.sensor_name, "value_below_threshold",
                          MonitorSeverity(value, threshold.min), row.value,
                          Some(threshold.min))>>
             ELSE IF value > threshold.max
             THEN <<Alert(row.facade_id, row.sensor_name, "value_above_threshold",
                          MonitorSeverity(value, threshold.max), row.value,
                          Some(threshold.max))>>
             ELSE <<>>
    ELSE <<>>

RECURSIVE AlertsToInsert(_)
\* lines 59-104: the loop over the rows fetched
AlertsToInsert(rs) ==
    IF rs = <<>> THEN <<>> ELSE RowAlerts(Head(rs)) \o AlertsToInsert(Tail(rs))

\* the window with its lower edge left out
InWindowExclusive(row, t) == row.ts > t - WINDOW_MINUTES

\* WHERE ts >= NOW() - INTERVAL '5 minutes'
InWindow(row, t) == row.ts >= t - WINDOW_MINUTES

RECURSIVE InsertByTsDesc(_, _)
InsertByTsDesc(sorted, r) ==
    IF sorted = <<>> THEN <<r>>
    ELSE IF Head(sorted).ts >= r.ts THEN <<Head(sorted)>> \o InsertByTsDesc(Tail(sorted), r)
    ELSE <<r>> \o sorted

RECURSIVE OrderByTsDesc(_)
\* ORDER BY ts DESC, rows of equal ts in table order
OrderByTsDesc(s) ==
    IF s = <<>> THEN <<>>
    ELSE InsertByTsDesc(OrderByTsDesc(SubSeq(s, 1, Len(s) - 1)), s[Len(s)])

\* lines 49-57: the rows the query returns at time t
RecentRows(table, t) ==
    OrderByTsDesc(SelectSeq(table, LAMBDA r : InWindow(r, t)))

\* the row INSERT INTO alerts stores: created_at defaults to NOW()
Stored(alert, t) ==
    [facade_id |-> alert.facade_id, sensor_name |-> alert.sensor_name,
     alert_type |-> alert.alert_type, severity |-> alert.severity,
     value |-> alert.value, threshold |-> alert.threshold, created_at |-> t]

(***************************************************************************)
(* The checks of the alert monitor and its main loop, lines 226-253        *)
(***************************************************************************)
\* what a query or an insert of the monitor may raise ("": nothing)
StoreOutcomes == {"", "PostgresError", "OSError"}

\* a check that catches asyncpg.PostgresError only
CheckExceptPostgresOnly(exc) == IF exc = "PostgresError" THEN "" ELSE exc

\* lines 131, 180, 200: `except Exception` around the body of every check;
\* "" when the exception is caught, otherwise the exception that leaves the
\* check
CheckExcept(exc) == IF exc \in ExceptionClasses THEN "" ELSE exc

\* lines 226-253: where main() is once a check is over: an exception that
\* leaves a check leaves the while loop (lines 246-253)
AfterCheck(out, next) == IF out = "" THEN next ELSE "terminated"

\* history of one operation: n counts its executions modulo 2, at is NOW()
\* of the last execution, result is what it did in the current iteration
NoRun == [n |-> 0, at |-> -1, result |-> "none"]
Ran(r, t, result) == [n |-> (r.n + 1) % 2, at |-> t, result |-> result]
Skipped(r) == [r EXCEPT !.result = "skipped"]
NewIteration(d) ==
    [op \in DOMAIN d |-> [d[op] EXCEPT !.result = "none"]]

\* an insert that skips an alert the table already holds for the same sensor
\* and type
InsertAlertsOnce(table, batch, t) ==
    table \o SelectSeq([i \in 1..Len(batch) |-> Stored(batch[i], t)],
                       LAMBDA a : \A j \in DOMAIN table :
                                     ~(/\ table[j].facade_id = a.facade_id
                                       /\ table[j].sensor_name = a.sensor_name
                                       /\ table[j].alert_type = a.alert_type))

\* lines 108-125 and 159-174: INSERT INTO alerts for every alert of the batch
InsertAlerts(table, batch, t) ==
    table \o [i \in 1..Len(batch) |-> Stored(batch[i], t)]

\* lines 47-104: the query and the loop; a failed query is caught at line 131
CheckFetch ==
    /\ swPc = "check_fetch"
    /\ \E exc \in StoreOutcomes :
         IF exc = ""
         THEN /\ rows' = RecentRows(measurements, now)
              /\ alerts_to_insert' = AlertsToInsert(RecentRows(measurements, now))
              /\ tableAtFetch' = measurements
              /\ fetchedAt' = now
              /\ swPc' = "check_insert"
              /\ UNCHANGED <<checkOk, done>>
         ELSE /\ rows' = <<>>
              /\ alerts_to_insert' = <<>>
              /\ tableAtFetch' = <<>>
              /\ fetchedAt' = now
              /\ checkOk' = FALSE
              /\ done' = [done EXCEPT !.anomaly = Ran(@, now, "failed")]
              /\ swPc' = AfterCheck(CheckExcept(exc), "inactive")
    /\ UNCHANGED <<now, uptime, ingVars, measurements, alerts, wakeAt, current_time,
                   last_inactive_check, last_cleanup, purged, apiVars>>

\* lines 106-132: the alerts are inserted in one transaction, or nothing is
CheckInsert ==
    /\ swPc = "check_insert"
    /\ \E exc \in StoreOutcomes :
         \/ /\ exc = "" \/ alerts_to_insert = <<>>
            /\ alerts' = InsertAlerts(alerts, alerts_to_insert, now)
            /\ checkOk' = TRUE
            /\ done' = [done EXCEPT !.anomaly = Ran(@, fetchedAt, "ok")]
            /\ swPc' = "inactive"
         \/ /\ exc # "" /\ alerts_to_insert # <<>>
            /\ alerts' = alerts
            /\ checkOk' = FALSE
            /\ done' = [done EXCEPT !.anomaly = Ran(@, fetchedAt, "failed")]
            /\ swPc' = AfterCheck(CheckExcept(exc), "inactive")
    /\ UNCHANGED <<now, uptime, ingVars, measurements, rows, alerts_to_insert,
                   tableAtFetch, fetchedAt, wakeAt, current_time, last_inactive_check,
                   last_cleanup, purged, apiVars>>

SameSensor(a, b) == a.facade_id = b.facade_id /\ a.sensor_name = b.sensor_name

RECURSIVE LatestReadings(_)
\* lines 144-149: SELECT DISTINCT ON (facade_id, sensor_name) ... ORDER BY
\* facade_id, sensor_name, ts DESC: one row per sensor, with its greatest ts
LatestReadings(table) ==
    IF table = <<>> THEN <<>>
    ELSE LET r == table[Len(table)]
             rest == LatestReadings(SubSeq(table, 1, Len(table) - 1))
         IN  IF \E i \in DOMAIN rest : SameSensor(rest[i], r)
             THEN [i \in DOMAIN rest |->
                      IF SameSensor(rest[i], r) /\ rest[i].ts < r.ts
                      THEN [rest[i] EXCEPT !.ts = r.ts] ELSE rest[i]]
             ELSE Append(rest, [facade_id |-> r.facade_id,
                                sensor_name |-> r.sensor_name, ts |-> r.ts])

\* the sensor counts as inactive from the threshold on
InactiveInclusive(reading, t) == reading.ts <= t - INACTIVE_MINUTES

\* line 152: WHERE ts < NOW() - INTERVAL '10 minutes'
Inactive(reading, t) == reading.ts < t - INACTIVE_MINUTES

\* lines 143-156: the results the query may return at time t (the outer
\* SELECT has no ORDER BY)
InactiveRows(table, t) ==
    Orderings(SelectSeq(LatestReadings(table), LAMBDA r : Inactive(r, t)), AnyOrder)

\* lines 159-174: the alert inserted for one row; value and threshold are not
\* among the columns of the INSERT
InactiveAlert(row) ==
    Alert(row.facade_id, row.sensor_name, "sensor_inactive", "medium", None, None)

\* an inactivity check in every iteration that follows a sleep
InactiveDueEveryIteration == current_time - last_inactive_check >= SLEEP_MINUTES

\* line 234
InactiveDue == current_time - last_inactive_check >= INACTIVE_CHECK_INTERVAL

\* lines 234-236 and 135-181: check_inactive_sensors when it is due; the
\* locals of check_for_anomalies are gone
CheckInactive ==
    /\ swPc = "inactive"
    /\ IF InactiveDue
       THEN /\ \E exc \in StoreOutcomes, found \in InactiveRows(measurements, now) :
                 /\ alerts' = IF exc = ""
                              THEN InsertAlerts(alerts,
                                                [i \in 1..Len(found) |->
                                                    InactiveAlert(found[i])], now)
                              ELSE alerts
                 /\ done' = [done EXCEPT !.inactive =
                                Ran(@, now, IF exc = "" THEN "ok" ELSE "failed")]
                 /\ swPc' = AfterCheck(CheckExcept(exc), "cleanup")
            /\ last_inactive_check' = current_time
       ELSE /\ swPc' = "cleanup"
            /\ done' = [done EXCEPT !.inactive = Skipped(@)]
            /\ UNCHANGED <<alerts, last_inactive_check>>
    /\ rows' = <<>>
    /\ alerts_to_insert' = <<>>
    /\ tableAtFetch' = <<>>
    /\ UNCHANGED <<now, uptime, ingVars, measurements, fetchedAt, checkOk, wakeAt,
                   current_time, last_cleanup, purged, apiVars>>

\* the rows exactly 30 days old deleted as well
ExpiredInclusive(alert, t) == alert.created_at <= t - RETENTION_MINUTES

\* line 189: WHERE created_at < NOW() - INTERVAL '30 days'
Expired(alert, t) == alert.created_at < t - RETENTION_MINUTES

\* line 239
CleanupDue == current_time - last_cleanup >= CLEANUP_INTERVAL

\* lines 239-244 and 184-201: cleanup_old_alerts when it is due, then the
\* sleep begins
CleanupOldAlerts ==
    /\ swPc = "cleanup"
    /\ IF CleanupDue
       THEN /\ \E exc \in StoreOutcomes :
                 /\ alerts' = IF exc = ""
                              THEN SelectSeq(alerts, LAMBDA a : ~Expired(a, now))
                              ELSE alerts
                 /\ purged' = IF exc = ""
                              THEN SelectSeq(alerts, LAMBDA a : Expired(a, now))
                              ELSE <<>>
                 /\ done' = [done EXCEPT !.cleanup =
                                Ran(@, now, IF exc = "" THEN "ok" ELSE "failed")]
                 /\ swPc' = AfterCheck(CheckExcept(exc), "sleep")
            /\ last_cleanup' = current_time
       ELSE /\ swPc' = "sleep"
            /\ done' = [done EXCEPT !.cleanup = Skipped(@)]
            /\ UNCHANGED <<alerts, last_cleanup, purged>>
    /\ wakeAt' = now + SLEEP_MINUTES
    /\ UNCHANGED <<now, uptime, ingVars, measurements, rows, alerts_to_insert,
                   tableAtFetch, fetchedAt, checkOk, current_time, last_inactive_check,
                   apiVars>>

\* line 244 and back to line 228: asyncio.sleep(anomaly_check_interval) is
\* over and the clock is read
SweepWake ==
    /\ swPc = "sleep"
    /\ now >= wakeAt
    /\ swPc' = "check_fetch"
    /\ current_time' = uptime
    /\ done' = NewIteration(done)
    /\ UNCHANGED <<now, uptime, ingVars, measurements, rows, alerts_to_insert,
                   tableAtFetch, wakeAt, fetchedAt, checkOk, alerts, last_inactive_check,
                   last_cleanup, purged, apiVars>>

\* a minute passes, up to minute h
TickTo(h) ==
    /\ now < h
    /\ now' = now + 1
    /\ uptime' = uptime + 1
    /\ UNCHANGED <<ingVars, measurements, swVars, apiVars>>

\* the clock of the pipeline: the checks of one iteration of the monitor are
\* over within the minute in which the iteration began
Tick == swPc = "sleep" /\ TickTo(MaxTime)

(***************************************************************************)
(* alerts_service: get_anomalies_by_threshold and get_alert_history        *)
(***************************************************************************)
NoRequest == [kind |-> "none", limit |-> 0, hours |-> 0, facade_type |-> ""]

NoResponse == [kind |-> "none"]

\* WHERE ts >= NOW() - INTERVAL '%s hours'
InHours(row, t, hours) == row.ts >= t - hours * MINUTES_PER_HOUR

\* the optional filters: "" stands for None
Matches(field, wanted) == wanted = "" \/ field = wanted

\* line 156: the severity of an anomaly
ServiceSeverity(value, threshold) ==
    IF Abs(value - threshold.max) < SEVERITY_DISTANCE THEN "warning" ELSE "critical"

\* lines 146-167: what one row appends to anomalies
RowAnomalies(row) ==
    IF row.sensor_name \in DOMAIN SERVICE_ALERT_THRESHOLDS
    THEN LET threshold == SERVICE_ALERT_THRESHOLDS[row.sensor_name]
         IN  IF ~IsNone(row.value)
                /\ (Val(row.value) < threshold.min \/ Val(row.value) > threshold.max)
             THEN <<[facade_id |-> row.facade_id, device_id |-> row.device_id,
                     facade_type |-> row.facade_type, sensor_name |-> row.sensor_name,
                     value |-> row.value, expected_range |-> threshold, ts |-> row.ts,
                     severity |-> ServiceSeverity(Val(row.value), threshold)]>>
             ELSE <<>>
    ELSE <<>>

RECURSIVE Anomalies(_)
\* lines 144-167: the loop over the rows fetched
Anomalies(rs) ==
    IF rs = <<>> THEN <<>> ELSE RowAnomalies(Head(rs)) \o Anomalies(Tail(rs))

\* lines 122-142: the results the query may return (the order of rows of
\* equal ts, and so which of them LIMIT keeps, is open)
AnomalyQuery(table, t, facade_id, facade_type, limit, hours) ==
    {Take(o, limit) :
        o \in Orderings(SelectSeq(table, LAMBDA r : /\ InHours(r, t, hours)
                                                    /\ Matches(r.facade_id, facade_id)
                                                    /\ Matches(r.facade_type, facade_type)),
                        TsDesc)}

\* an error query that replays the rows of the alerts table besides the
\* measurements
ErrorQueryWithAlertStore(table, t, facade_type, hours) ==
    Orderings(SelectSeq(table, LAMBDA r : /\ (IsNone(r.value) \/ Val(r.value) < 0)
                                          /\ InHours(r, t, hours)
                                          /\ Matches(r.facade_type, facade_type))
              \o [i \in 1..Len(alerts) |->
                     Record(0, 0, alerts[i].facade_id, "d1", "no_refrigerada",
                            alerts[i].sensor_name, alerts[i].value,
                            alerts[i].created_at)],
              AnyOrder)

\* lines 319-333: the results the error query may return (no ORDER BY)
ErrorQuery(table, t, facade_type, hours) ==
    Orderings(SelectSeq(table, LAMBDA r : /\ (IsNone(r.value) \/ Val(r.value) < 0)
                                          /\ InHours(r, t, hours)
                                          /\ Matches(r.facade_type, facade_type)),
              AnyOrder)

\* datetime.isoformat(): the minute as two digits (the rest of the text is
\* the same for all rows)
IsoFormat(ts) == <<ts \div 10, ts % 10>>

\* datetime.timestamp(): seconds
Timestamp(ts) == ts * 60

\* lines 337-347
ErrorItem(row) ==
    [id |-> <<"error", row.device_id, Timestamp(row.ts)>>, type |-> "sensor_error",
     facade_id |-> row.facade_id, facade_type |-> row.facade_type,
     device_id |-> row.device_id, sensor_name |-> row.sensor_name,
     message |-> <<"invalid value", row.sensor_name, row.value>>,
     severity |-> "critical", created_at |-> IsoFormat(row.ts)]

\* lines 354-364
AnomalyItem(anomaly) ==
    [id |-> <<"anomaly", anomaly.device_id, Timestamp(anomaly.ts)>>,
     type |-> "threshold_exceeded",
     facade_id |-> anomaly.facade_id, facade_type |-> anomaly.facade_type,
     device_id |-> anomaly.device_id, sensor_name |-> anomaly.sensor_name,
     message |-> <<"out of range", anomaly.sensor_name, anomaly.value>>,
     severity |-> anomaly.severity, created_at |-> IsoFormat(anomaly.ts)]

\* comparison of two strings of equal length, character by character
StrGeq(a, b) == a[1] > b[1] \/ (a[1] = b[1] /\ a[2] >= b[2])

RECURSIVE InsertByCreatedAtDesc(_, _)
InsertByCreatedAtDesc(sorted, x) ==
    IF sorted = <<>> THEN <<x>>
    ELSE IF StrGeq(Head(sorted).created_at, x.created_at)
    THEN <<Head(sorted)>> \o InsertByCreatedAtDesc(Tail(sorted), x)
    ELSE <<x>> \o sorted

RECURSIVE SortByCreatedAtDesc(_)
\* line 367: alerts.sort(key = created_at, reverse = True), a stable sort
SortByCreatedAtDesc(s) ==
    IF s = <<>> THEN <<>>
    ELSE InsertByCreatedAtDesc(SortByCreatedAtDesc(SubSeq(s, 1, Len(s) - 1)), s[Len(s)])

\* lines 315-368 once both queries have returned
MergedHistory(error_rows, anomaly_rows, limit) ==
    Take(SortByCreatedAtDesc(
            [i \in 1..Len(error_rows) |-> ErrorItem(error_rows[i])]
            \o [i \in 1..Len(Anomalies(anomaly_rows)) |->
                    AnomalyItem(Anomalies(anomaly_rows)[i])]),
         limit)

FacadeTypeInputs == {"", "no_refrigerada"}

\* get_anomalies_by_threshold(facade_type, limit, hours); the service keeps
\* no state between calls, so a run makes one call
GetAnomaliesByThreshold ==
    /\ req.kind = "none"
    /\ \E limit \in 1..MaxLimit, facade_type \in FacadeTypeInputs :
         \E fetched \in AnomalyQuery(measurements, now, "", facade_type, limit, 1) :
             /\ anomalies' = Anomalies(fetched)
             /\ req' = [kind |-> "anomalies", limit |-> limit, hours |-> 1,
                        facade_type |-> facade_type]
    /\ UNCHANGED <<now, uptime, ingVars, measurements, swVars, history, response>>

\* get_alert_history(limit, facade_type, hours); one call per run
GetAlertHistory ==
    /\ req.kind = "none"
    /\ \E limit \in 1..MaxLimit, facade_type \in FacadeTypeInputs :
         \E error_rows \in ErrorQuery(measurements, now, facade_type, 1),
            fetched \in AnomalyQuery(measurements, now, "", facade_type, limit, 1) :
             /\ history' = MergedHistory(error_rows, fetched, limit)
             /\ req' = [kind |-> "history", limit |-> limit, hours |-> 1,
                        facade_type |-> facade_type]
    /\ UNCHANGED <<now, uptime, ingVars, measurements, swVars, anomalies, response>>

(***************************************************************************)
(* routes_alerts: GET /alerts/history, lines 144-190                       *)
(***************************************************************************)
\* lines 146 and 148: Query(100, ge=1, le=1000) and Query(168, ge=1, le=2160)
LIMIT_GE == 1
LIMIT_LE == 1000
HOURS_GE == 1
HOURS_LE == 2160

\* the validation FastAPI makes of the query parameters before the handler
ValidQuery(limit, hours) ==
    /\ LIMIT_GE <= limit /\ limit <= LIMIT_LE
    /\ HOURS_GE <= hours /\ hours <= HOURS_LE

\* where the aggregator may fail: get_pool() returns None (lines 311-313),
\* the error query raises (line 331), the anomaly query raises (line 140)
FailurePoints == {"none", "pool", "error_query", "anomaly_query"}

\* an anomaly service that answers a failed query with no anomalies
AnomaliesExceptSwallowing(exc) == ""

\* alerts_service lines 171-175: the exception is printed and raised again
AnomaliesExcept(exc) == exc

\* what get_alert_history raises when it fails at point fail, "" if it
\* returns (lines 311-313, 369-373)
HistoryExcept(fail) ==
    CASE fail = "none" -> ""
      [] fail = "pool" -> "RuntimeError"
      [] fail = "error_query" -> "PostgresError"
      [] fail = "anomaly_query" -> AnomaliesExcept("PostgresError")

\* the whole handler: validation, the call of get_alert_history, and the
\* answer (lines 176-190); the handler keeps no state between requests, so
\* a run makes one request
GetAlertsHistoryEndpoint ==
    /\ req.kind = "none"
    /\ \E limit \in {LIMIT_GE - 1} \cup (1..MaxLimit) \cup {LIMIT_LE + 1},
          hours \in {HOURS_GE - 1, HOURS_GE},
          facade_type \in FacadeTypeInputs, fail \in FailurePoints :
         /\ req' = [kind |-> "endpoint", limit |-> limit, hours |-> hours,
                    facade_type |-> facade_type]
         /\ IF ~ValidQuery(limit, hours)
            THEN /\ response' = [kind |-> "history", status |-> 422, fail |-> "none"]
                 /\ UNCHANGED history
            ELSE IF HistoryExcept(fail) # ""
            THEN /\ response' = [kind |-> "history", status |-> 500, fail |-> fail]
                 /\ UNCHANGED history
            ELSE \E error_rows \in ErrorQuery(measurements, now, facade_type, hours),
                    fetched \in AnomalyQuery(measurements, now, "", facade_type, limit,
                                             hours) :
                   LET feed == MergedHistory(error_rows,
                                             IF fail = "none" THEN fetched ELSE <<>>,
                                             limit)
                   IN  /\ history' = feed
                       /\ response' = [kind |-> "history", status |-> 200, fail |-> fail,
                                       count |-> Len(feed), facade_type |-> facade_type,
                                       time_range_hours |-> hours, alerts |-> feed]
    /\ UNCHANGED <<now, uptime, ingVars, measurements, swVars, anomalies>>

(***************************************************************************)
(* cache_controller: get_latest_facade, get_sensor_value,                 *)
(* invalidate_facade_cache                                                 *)
(***************************************************************************)
FacadeIdInputs == {"1", "2"}
SensorNameInputs == {"Irradiancia", "Otro", "Ausente"}

\* lines 81-84, 227-230 and 381: the key a call of the controller addresses;
\* an absent facade_type (None) is the empty string
ControllerKey(facade_id, facade_type) ==
    IF facade_type # "" THEN <<"facade", facade_id, facade_type, "latest">>
    ELSE <<"facade", facade_id, "latest">>

\* line 386, KEYS facade:{facade_id}:*:latest : the keys that start with
\* facade:{facade_id}: and end with :latest around a (possibly empty) middle
KeysOfAllTypes(c, facade_id) ==
    {key \in DOMAIN c : /\ Len(key) >= 4
                        /\ key[1] = "facade"
                        /\ key[2] = facade_id
                        /\ key[Len(key)] = "latest"}

\* the outcome of a call: RuntimeError without a client, the error answer
\* of the except clause when the Redis command fails, otherwise ok
ControllerOutcome(clientOk, redisOk) ==
    IF ~clientOk THEN "RuntimeError" ELSE IF ~redisOk THEN "error" ELSE "ok"

\* lines 356-396
InvalidateFacadeCacheCall(facade_id, facade_type, clientOk, redisOk) ==
    LET keys == IF facade_type # ""
                THEN {ControllerKey(facade_id, facade_type)}
                ELSE KeysOfAllTypes(cache, facade_id)
        out == ControllerOutcome(clientOk, redisOk)
    IN  /\ cache' = IF out = "ok" THEN [key \in DOMAIN cache \ keys |-> cache[key]]
                    ELSE cache
        /\ response' = [kind |-> "invalidate", facade_id |-> facade_id,
                        facade_type |-> facade_type,
                        out |-> IF out = "ok" THEN "message" ELSE out]
        /\ UNCHANGED <<now, uptime, ingPc, attempt, delay, conns, msgCount, cur, last,
                       measurements, swVars, req, anomalies, history>>

InvalidateFacadeCache ==
    \E facade_id \in FacadeIdInputs, facade_type \in FacadeTypeInputs,
       clientOk \in BOOLEAN, redisOk \in BOOLEAN :
        InvalidateFacadeCacheCall(facade_id, facade_type, clientOk, redisOk)

\* lines 50-122: HGETALL of the key; an empty answer is "no recent data"
GetLatestFacadeCall(facade_id, facade_type, clientOk, redisOk) ==
    LET key == ControllerKey(facade_id, facade_type)
        data == IF key \in DOMAIN cache THEN cache[key] ELSE <<>>
        out == ControllerOutcome(clientOk, redisOk)
    IN  /\ response' = [kind |-> "latest", facade_id |-> facade_id,
                        facade_type |-> facade_type,
                        out |-> IF out # "ok" THEN out
                                ELSE IF data = <<>> THEN "message" ELSE "data",
                        data |-> IF out = "ok" /\ data # <<>> THEN Some(data) ELSE None]
        /\ UNCHANGED <<now, uptime, ingVars, measurements, swVars, req, anomalies,
                       history>>

GetLatestFacade ==
    \E facade_id \in FacadeIdInputs, facade_type \in FacadeTypeInputs,
       clientOk \in BOOLEAN, redisOk \in BOOLEAN :
        GetLatestFacadeCall(facade_id, facade_type, clientOk, redisOk)

\* lines 200-260: HGET of one field of the key; no value is "sensor not found"
GetSensorValueCall(facade_id, sensor_name, facade_type, clientOk, redisOk) ==
    LET key == ControllerKey(facade_id, facade_type)
        hash == IF key \in DOMAIN cache THEN cache[key] ELSE <<>>
        found == sensor_name \in DOMAIN hash
        out == ControllerOutcome(clientOk, redisOk)
    IN  /\ response' = [kind |-> "sensor", facade_id |-> facade_id,
                        sensor_name |-> sensor_name, facade_type |-> facade_type,
                        out |-> IF out # "ok" THEN out
                                ELSE IF found THEN "value" ELSE "message",
                        value |-> IF out = "ok" /\ found THEN Some(hash[sensor_name])
                                  ELSE None]
        /\ UNCHANGED <<now, uptime, ingVars, measurements, swVars, req, anomalies,
                       history>>

GetSensorValue ==
    \E facade_id \in FacadeIdInputs, sensor_name \in SensorNameInputs,
       facade_type \in FacadeTypeInputs, clientOk \in BOOLEAN, redisOk \in BOOLEAN :
        GetSensorValueCall(facade_id, sensor_name, facade_type, clientOk, redisOk)

(***************************************************************************)
(* The pipeline: ingestor and alert monitor on the same stores             *)
(***************************************************************************)
Init ==
    /\ now = FirstMinute
    /\ ingPc = "connecting"
    /\ attempt = 0
    /\ delay = 0
    /\ conns = [redis |-> "open", pool |-> "open"]
    /\ msgCount = 0
    /\ cur = NoCall
    /\ last = NoLast
    /\ cache = <<>>
    /\ measurements = <<>>
    /\ swPc = "check_fetch"
    /\ wakeAt = 0
    /\ rows = <<>>
    /\ alerts_to_insert = <<>>
    /\ tableAtFetch = <<>>
    /\ fetchedAt = FirstMinute
    /\ checkOk = FALSE
    /\ alerts = <<>>
    /\ uptime = CLEANUP_INTERVAL
    /\ current_time = CLEANUP_INTERVAL
    /\ last_inactive_check = 0
    /\ last_cleanup = 0
    /\ done = [anomaly |-> NoRun, inactive |-> NoRun, cleanup |-> NoRun]
    /\ purged = <<>>
    /\ req = NoRequest
    /\ anomalies = <<>>
    /\ history = <<>>
    /\ response = NoResponse

Next ==
    \/ Connect
    \/ Reconnect
    \/ TransportError
    \/ ReceiveBadJson
    \/ ReceivePayload
    \/ DurableWrite
    \/ CheckFetch
    \/ CheckInsert
    \/ CheckInactive
    \/ CleanupOldAlerts
    \/ SweepWake
    \/ Tick

Spec == Init /\ [][Next]_vars

\* the ingestor alone, with a shutdown signal at any moment
NextConn ==
    \/ Connect
    \/ Reconnect
    \/ TransportError
    \/ ReceiveBadJson
    \/ ReceivePayload
    \/ DurableWrite
    \/ Shutdown

SpecConn == Init /\ [][NextConn]_vars

\* the ingestor alone, with every message after the first a redelivery of
\* the first raw message, at the same minute or later
Redeliver ==
    /\ msgCount >= 1
    /\ ReceivePayload
    /\ last'.payload = last.payload

ReceiveFirst == msgCount = 0 /\ ReceivePayload

TickDecode == ingPc = "consuming" /\ TickTo(MaxTime)

NextDecode ==
    \/ Connect
    \/ Reconnect
    \/ ReceiveFirst
    \/ Redeliver
    \/ DurableWrite
    \/ TickDecode

SpecDecode == Init /\ [][NextDecode]_vars

(***************************************************************************)
(* Detection over a given table: the measurements table is drawn from the  *)
(* tables the ingestor can have written, one minute after FirstMinute, so  *)
(* that minute 0 has left the anomaly window.                              *)
(***************************************************************************)
SamplePairs ==
    << <<"Irradiancia", Some(1504)>>,
       <<"Irradiancia", Some(1505)>>,
       <<"Irradiancia", Some(100)>>,
       <<"Irradiancia", Some(-1)>>,
       <<"Otro", None>>,
       <<"Otro", Some(7000)>>,
       <<"Presion_Alta", Some(100)>> >>

StoreTimes == <<0, 1, 2>>

SampleRow(k) ==
    LET pair == SamplePairs[((k - 1) \div Len(StoreTimes)) + 1]
        ts == StoreTimes[((k - 1) % Len(StoreTimes)) + 1]
    IN  Record(0, 0, "1", "d1", "no_refrigerada", pair[1], pair[2], ts)

\* the tables of at most MaxStoreRows sample rows, each listed once (rows in
\* the order of the samples)
StoreInputs ==
    LET K == Len(SamplePairs) * Len(StoreTimes)
    IN  UNION {{[i \in 1..n |-> SampleRow(f[i])] :
                    f \in {g \in [1..n -> 1..K] :
                            \A i \in 1..n : i < n => g[i] <= g[i + 1]}} :
               n \in 0..MaxStoreRows}

InitStore ==
    /\ now = FirstMinute + 1
    /\ ingPc = "connecting"
    /\ attempt = 0
    /\ delay = 0
    /\ conns = [redis |-> "open", pool |-> "open"]
    /\ msgCount = 0
    /\ cur = NoCall
    /\ last = NoLast
    /\ cache = <<>>
    /\ measurements \in StoreInputs
    /\ swPc = "check_fetch"
    /\ wakeAt = 0
    /\ rows = <<>>
    /\ alerts_to_insert = <<>>
    /\ tableAtFetch = <<>>
    /\ fetchedAt = FirstMinute + 1
    /\ checkOk = FALSE
    /\ alerts = <<>>
    /\ uptime = CLEANUP_INTERVAL
    /\ current_time = CLEANUP_INTERVAL
    /\ last_inactive_check = 0
    /\ last_cleanup = 0
    /\ done = [anomaly |-> NoRun, inactive |-> NoRun, cleanup |-> NoRun]
    /\ purged = <<>>
    /\ req = NoRequest
    /\ anomalies = <<>>
    /\ history = <<>>
    /\ response = NoResponse

\* one anomaly check of the monitor over the table
NextSweep ==
    \/ CheckFetch
    \/ CheckInsert

SpecSweep == InitStore /\ [][NextSweep]_vars

\* calls of the alerts service over the table
NextApi ==
    \/ GetAnomaliesByThreshold
    \/ GetAlertHistory

SpecApi == InitStore /\ [][NextApi]_vars

\* requests to GET /alerts/history over the table
SpecEndpoint == InitStore /\ [][GetAlertsHistoryEndpoint]_vars

\* the ingestor and the cache controller of the backend on the same Redis
NextCache ==
    \/ Connect
    \/ ReceivePayload
    \/ DurableWrite
    \/ InvalidateFacadeCache
    \/ GetLatestFacade
    \/ GetSensorValue

SpecCache == Init /\ [][NextCache]_vars

(***************************************************************************)
(* The alert monitor alone, started at minute t with its monotonic clock   *)
(* at up, over given tables                                                *)
(***************************************************************************)
MonitorStarted(t, up) ==
    /\ now = t
    /\ ingPc = "connecting"
    /\ attempt = 0
    /\ delay = 0
    /\ conns = [redis |-> "open", pool |-> "open"]
    /\ msgCount = 0
    /\ cur = NoCall
    /\ last = NoLast
    /\ cache = <<>>
    /\ swPc = "check_fetch"
    /\ wakeAt = 0
    /\ rows = <<>>
    /\ alerts_to_insert = <<>>
    /\ tableAtFetch = <<>>
    /\ fetchedAt = t
    /\ checkOk = FALSE
    /\ uptime = up
    /\ current_time = up
    /\ last_inactive_check = 0
    /\ last_cleanup = 0
    /\ done = [anomaly |-> NoRun, inactive |-> NoRun, cleanup |-> NoRun]
    /\ purged = <<>>
    /\ req = NoRequest
    /\ anomalies = <<>>
    /\ history = <<>>
    /\ response = NoResponse

\* one iteration of the monitor up to its inactivity check, at a minute at
\* which a reading of minute 2 is exactly 10 minutes old
InactiveStart == INACTIVE_MINUTES + 2

InactiveTimes == <<1, 2, 3>>

InactiveSensors ==
    << <<"1", "Irradiancia">>, <<"1", "Otro">>, <<"2", "Irradiancia">> >>

InactiveRow(k) ==
    LET sensor == InactiveSensors[((k - 1) \div Len(InactiveTimes)) + 1]
        ts == InactiveTimes[((k - 1) % Len(InactiveTimes)) + 1]
    IN  Record(0, 0, sensor[1], "d1", "no_refrigerada", sensor[2], Some(100), ts)

\* the tables of at most MaxStoreRows readings of the sensors, in any order
InactiveInputs ==
    LET K == Len(InactiveSensors) * Len(InactiveTimes)
    IN  UNION {{[i \in 1..n |-> InactiveRow(f[i])] : f \in [1..n -> 1..K]} :
               n \in 0..MaxStoreRows}

InitInactive ==
    /\ MonitorStarted(InactiveStart, CLEANUP_INTERVAL)
    /\ measurements \in InactiveInputs
    /\ alerts = <<>>

NextInactive ==
    \/ CheckFetch
    \/ CheckInsert
    \/ CheckInactive

SpecInactive == InitInactive /\ [][NextInactive]_vars

\* one iteration of the monitor with its cleanup, over alerts created 31
\* days, 30 days and a minute, 30 days and 29 days before
CleanupStart == RETENTION_MINUTES + CLEANUP_INTERVAL

AlertAges ==
    <<RETENTION_MINUTES + CLEANUP_INTERVAL, RETENTION_MINUTES + 1, RETENTION_MINUTES,
      RETENTION_MINUTES - CLEANUP_INTERVAL>>

AlertSamples ==
    <<Alert("1", "Irradiancia", "sensor_error", "critical", Some(-1), None),
      Alert("1", "Otro", "sensor_inactive", "medium", None, None)>>

OldAlert(k) ==
    Stored(AlertSamples[((k - 1) \div Len(AlertAges)) + 1],
           CleanupStart - AlertAges[((k - 1) % Len(AlertAges)) + 1])

\* the alert tables of at most MaxStoreRows such rows, in any order
AlertInputs ==
    LET K == Len(AlertSamples) * Len(AlertAges)
    IN  UNION {{[i \in 1..n |-> OldAlert(f[i])] : f \in [1..n -> 1..K]} :
               n \in 0..MaxStoreRows}

InitCleanup ==
    /\ MonitorStarted(CleanupStart, CLEANUP_INTERVAL)
    /\ measurements \in {<<>>, <<SampleRow(1)>>}
    /\ alerts \in AlertInputs

NextCleanup ==
    \/ CheckFetch
    \/ CheckInsert
    \/ CheckInactive
    \/ CleanupOldAlerts

SpecCleanup == InitCleanup /\ [][NextCleanup]_vars

\* the loop of the monitor over six minutes, with a reading that stays in
\* the anomaly window and a sensor that stays silent
RepeatStart == InactiveStart

RepeatInputs ==
    LET fresh == Record(0, 0, "1", "d1", "no_refrigerada", "Irradiancia", Some(-1),
                        RepeatStart)
        silent == Record(0, 0, "1", "d1", "no_refrigerada", "Otro", Some(100), 1)
    IN  {<<>>, <<fresh>>, <<silent>>, <<silent, fresh>>}

InitRepeat ==
    /\ MonitorStarted(RepeatStart, CLEANUP_INTERVAL)
    /\ measurements \in RepeatInputs
    /\ alerts = <<>>

TickRepeat == swPc = "sleep" /\ TickTo(MaxRepeatTime)

NextRepeat ==
    \/ CheckFetch
    \/ CheckInsert
    \/ CheckInactive
    \/ CleanupOldAlerts
    \/ SweepWake
    \/ TickRepeat

SpecRepeat == InitRepeat /\ [][NextRepeat]_vars

\* the loop of the monitor over more than a day, with empty tables.  The
\* first MaxCadenceMinutes of each day pass minute by minute: a sleep ends
\* when its 60 seconds are over, and the checks of one iteration take at most
\* MaxCheckMinutes.  The rest of the day passes in one sleep that returns late.
InitCadence ==
    /\ \E up \in {0, CLEANUP_INTERVAL} : MonitorStarted(FirstMinute, up)
    /\ measurements = <<>>
    /\ alerts = <<>>

MinuteOfDay == (now - FirstMinute) % CLEANUP_INTERVAL

CadenceEnd == FirstMinute + MaxDays * CLEANUP_INTERVAL + MaxCadenceMinutes

TickCadence ==
    /\ \/ swPc = "sleep" /\ now < wakeAt
       \/ swPc \in {"check_insert", "inactive", "cleanup"}
            /\ uptime < current_time + MaxCheckMinutes
    /\ MinuteOfDay < MaxCadenceMinutes
    /\ TickTo(CadenceEnd)

\* asyncio.sleep returns at the same minute of the next day
DayPasses ==
    /\ swPc = "sleep"
    /\ MinuteOfDay = MaxCadenceMinutes
    /\ now < CadenceEnd
    /\ now' = now + CLEANUP_INTERVAL - MaxCadenceMinutes
    /\ uptime' = uptime + CLEANUP_INTERVAL - MaxCadenceMinutes
    /\ UNCHANGED <<ingVars, measurements, swVars, apiVars>>

MonitorStep ==
    \/ CheckFetch
    \/ CheckInsert
    \/ CheckInactive
    \/ CleanupOldAlerts
    \/ SweepWake

TimePasses ==
    \/ TickCadence
    \/ DayPasses

NextCadence ==
    \/ MonitorStep
    \/ TimePasses

\* the event loop runs the monitor whenever it can run, and time passes
SpecCadence ==
    /\ InitCadence
    /\ [][NextCadence]_vars
    /\ WF_vars(MonitorStep)
    /\ WF_vars(TimePasses)

\* the history requested before, during or after an anomaly check of the
\* monitor, over a table of measurements and an alert store that holds the
\* alerts of earlier checks
FeedAlertInputs ==
    {<<>>,
     <<Stored(AlertSamples[2], FirstMinute)>>,
     <<Stored(AlertSamples[1], FirstMinute), Stored(AlertSamples[2], FirstMinute)>>}

InitFeed ==
    /\ MonitorStarted(FirstMinute + 1, CLEANUP_INTERVAL)
    /\ measurements \in {table \in StoreInputs : Len(table) <= MaxFeedRows}
    /\ alerts \in FeedAlertInputs

NextFeed ==
    \/ CheckFetch
    \/ CheckInsert
    \/ GetAlertHistory

SpecFeed == InitFeed /\ [][NextFeed]_vars

(***************************************************************************)
(* Properties of the pipeline (checked under Spec)                         *)
(***************************************************************************)
\* C1: when the cache write of a message fails, the durable insert of the
\* same message is still attempted (and so writes all its rows when the
\* durable store is healthy): once the call is over, a failed cache write
\* goes with a durable insert that was made or that failed, never with one
\* that was not attempted.
C1_CacheFailureKeepsDurableWrite ==
    (last.cache = "failed" /\ ingPc # "writing") =>
        last.durable \in {"inserted", "failed"}

RowsOf(table, m) == Cardinality({i \in DOMAIN table : table[i].mid = m})

AllOrNone(table) == \A i \in DOMAIN table : RowsOf(table, table[i].mid) = table[i].of

\* C2: the rows of one message are inserted in one transaction: in every
\* state the table, and every view of it a sweep has read, holds all rows of
\* a message or none of them.
C2_AtomicBatch ==
    /\ AllOrNone(measurements)
    /\ AllOrNone(tableAtFetch)
    /\ AllOrNone(rows)

\* a sweep has read a table that holds a two-row message while the insert of
\* another message is pending
C2_Witness ==
    /\ ingPc = "writing"
    /\ swPc = "check_insert"
    /\ \E i \in DOMAIN tableAtFetch : tableAtFetch[i].of = 2

TsParsable(ts) == ts.t = "absent" \/ (ts.t = "str" /\ ts.mm >= 0)

DataEmptyOrAbsent(data) ==
    data.t \in {"absent", "null"} \/ (data.t = "dict" /\ data.d = <<>>)

\* C3: handle_payload discards a message exactly when its timestamp cannot
\* be parsed or its data is empty or absent, and its decoding never raises,
\* whatever the type of ts or data.
C3_DiscardsWithoutRaising ==
    last.json = "ok" =>
        /\ last.decode # "raise"
        /\ last.decode = "discard" <=>
              (~TsParsable(last.payload.ts) \/ DataEmptyOrAbsent(last.payload.data))

\* C4: the ingestion loop never terminates on error: every step that handles
\* a message, whatever fails in it, leaves main() in its message loop, a
\* transport error leads to the reconnection sleep and from there to a new
\* connection attempt, and no state is terminal.
C4_LoopNeverTerminates ==
    /\ [](ingPc # "terminated")
    /\ [][(msgCount' = msgCount + 1 \/ ingPc = "writing")
            => ingPc' \in {"consuming", "writing"}]_vars
    /\ [][(ingPc = "sleeping" /\ ingPc' # "sleeping") => ingPc' = "connecting"]_vars
    /\ [][(ingPc \in {"connecting", "consuming"} /\ msgCount' = msgCount
           /\ ingPc' \notin {ingPc, "consuming"}) => ingPc' = "sleeping"]_vars

\* the first message was written to the cache but its durable write failed
\* (the cache holds its second sensor, the table none of its rows), and the
\* second message was stored all the same
C4_Witness ==
    /\ last.mid = 2
    /\ last.durable = "inserted"
    /\ CacheKey("1") \in DOMAIN cache
    /\ "Otro" \in DOMAIN cache[CacheKey("1")]
    /\ \A i \in DOMAIN measurements : measurements[i].mid = 2
    /\ measurements # <<>>

Invalid(row) == IsNone(row.value) \/ Val(row.value) < 0

HasSensorError(row) ==
    \E i \in DOMAIN alerts :
        /\ alerts[i].alert_type = "sensor_error"
        /\ alerts[i].severity = "critical"
        /\ alerts[i].facade_id = row.facade_id
        /\ alerts[i].sensor_name = row.sensor_name
        /\ alerts[i].value = row.value

\* C7 as claimed: every null or negative measurement that is durably written,
\* whatever its ts, gets a sensor_error alert from the running sweep: after
\* an anomaly check that ran without error, every such measurement that was
\* in the table when the check read it has its alert.
C7_EveryInvalidRowAlerted ==
    (swPc = "inactive" /\ checkOk) =>
        \A i \in DOMAIN tableAtFetch :
            Invalid(tableAtFetch[i]) => HasSensorError(tableAtFetch[i])

\* C7 as amended: the same for the measurements whose ts is at most 5 minutes
\* before the NOW() of the check's query.
C7_InvalidRowInWindowAlerted ==
    (swPc = "inactive" /\ checkOk) =>
        \A i \in DOMAIN tableAtFetch :
            (Invalid(tableAtFetch[i])
             /\ tableAtFetch[i].ts >= fetchedAt - WINDOW_MINUTES)
                => HasSensorError(tableAtFetch[i])

\* a check has run without error over a null or negative measurement lying
\* on the lower edge of its window
C7_Witness ==
    /\ swPc = "inactive"
    /\ checkOk
    /\ \E i \in DOMAIN tableAtFetch :
          /\ Invalid(tableAtFetch[i])
          /\ tableAtFetch[i].ts = fetchedAt - WINDOW_MINUTES

(***************************************************************************)
(* Properties of one anomaly check (checked under SpecSweep)               *)
(***************************************************************************)
\* the rows the check that has just ended inserted into alerts
SweepAlerts ==
    SubSeq(alerts, Len(alerts) - Len(alerts_to_insert) + 1, Len(alerts))

\* the measurements of the last-5-minute window of that check
WindowIdx ==
    {i \in DOMAIN tableAtFetch : tableAtFetch[i].ts >= fetchedAt - WINDOW_MINUTES}

SameReading(a, r) ==
    /\ a.facade_id = r.facade_id
    /\ a.sensor_name = r.sensor_name
    /\ a.value = r.value

\* the number of measurements of the window with the reading of r
NRows(r) == Cardinality({i \in WindowIdx : SameReading(tableAtFetch[i], r)})

\* the alerts of the check for the reading of r
AlertsFor(r) == {j \in DOMAIN SweepAlerts : SameReading(SweepAlerts[j], r)}

\* C5: in one anomaly sweep every measurement of the window whose value is
\* null or negative produces exactly one alert, a sensor_error of severity
\* critical with threshold null, and no threshold alert, with or without a
\* rule for its sensor.
C5_InvalidValueAlert ==
    (swPc = "inactive" /\ checkOk) =>
        \A i \in WindowIdx :
            LET r == tableAtFetch[i]
            IN  Invalid(r) =>
                    /\ Cardinality(AlertsFor(r)) = NRows(r)
                    /\ \A j \in AlertsFor(r) :
                          /\ SweepAlerts[j].alert_type = "sensor_error"
                          /\ SweepAlerts[j].severity = "critical"
                          /\ SweepAlerts[j].threshold = None

\* a check has run over a window holding a null reading of a sensor without
\* rule and a negative reading of a sensor with a rule
C5_Witness ==
    /\ swPc = "inactive"
    /\ checkOk
    /\ \E i, j \in WindowIdx :
          /\ tableAtFetch[i].value = None
          /\ tableAtFetch[i].sensor_name \notin DOMAIN MONITOR_ALERT_THRESHOLDS
          /\ tableAtFetch[j].value = Some(-1)
          /\ tableAtFetch[j].sensor_name \in DOMAIN MONITOR_ALERT_THRESHOLDS
    /\ Len(SweepAlerts) >= 2

\* C6: a non-null, non-negative measurement of the window whose sensor has a
\* rule yields one value_below_threshold alert with threshold min when below
\* min, one value_above_threshold alert with threshold max when above max,
\* and no alert inside [min, max]; the severity is warning iff the value is
\* less than 5 from the violated bound; a sensor without rule yields none.
C6_ThresholdAlert ==
    (swPc = "inactive" /\ checkOk) =>
        \A i \in WindowIdx :
            LET r == tableAtFetch[i]
                v == Val(r.value)
                rule == MONITOR_ALERT_THRESHOLDS[r.sensor_name]
                Expect(type, bound) ==
                    /\ Cardinality(AlertsFor(r)) = NRows(r)
                    /\ \A j \in AlertsFor(r) :
                          /\ SweepAlerts[j].alert_type = type
                          /\ SweepAlerts[j].threshold = Some(bound)
                          /\ SweepAlerts[j].severity = "warning" <=> Abs(v - bound) < 5
                          /\ SweepAlerts[j].severity = "critical" <=> Abs(v - bound) >= 5
            IN  ~Invalid(r) =>
                    IF r.sensor_name \in DOMAIN MONITOR_ALERT_THRESHOLDS
                    THEN IF v < rule.min THEN Expect("value_below_threshold", rule.min)
                         ELSE IF v > rule.max THEN Expect("value_above_threshold", rule.max)
                         ELSE AlertsFor(r) = {}
                    ELSE AlertsFor(r) = {}

\* a check has run over a window holding a reading exactly 5 above its
\* maximum, one 4 above it, one in range and one of a sensor without rule
C6_Witness ==
    /\ swPc = "inactive"
    /\ checkOk
    /\ \E i, j \in WindowIdx :
          /\ tableAtFetch[i].sensor_name = "Irradiancia"
          /\ tableAtFetch[i].value = Some(1505)
          /\ tableAtFetch[j].sensor_name = "Irradiancia"
          /\ tableAtFetch[j].value = Some(1504)
    /\ \E i \in WindowIdx : tableAtFetch[i].value \in {Some(100), Some(7000)}
    /\ \E j \in DOMAIN SweepAlerts :
          /\ SweepAlerts[j].value = Some(1505)
          /\ SweepAlerts[j].severity = "critical"

(***************************************************************************)
(* Properties of the alerts service (checked under SpecApi)                *)
(***************************************************************************)
Minute(created_at) == created_at[1] * 10 + created_at[2]

Requested(row) ==
    /\ InHours(row, now, req.hours)
    /\ Matches(row.facade_type, req.facade_type)

\* the measurements of the time window that are sensor errors
ErrorSources ==
    {i \in DOMAIN measurements :
        /\ Requested(measurements[i])
        /\ Invalid(measurements[i])}

\* the measurements of the time window that violate their threshold rule
ViolationSources ==
    {i \in DOMAIN measurements :
        /\ Requested(measurements[i])
        /\ ~IsNone(measurements[i].value)
        /\ measurements[i].sensor_name \in DOMAIN SERVICE_ALERT_THRESHOLDS
        /\ \/ Val(measurements[i].value)
                < SERVICE_ALERT_THRESHOLDS[measurements[i].sensor_name].min
           \/ Val(measurements[i].value)
                > SERVICE_ALERT_THRESHOLDS[measurements[i].sensor_name].max}

\* the number of items of the merged set, and of the feed, created at t
MergedAt(t) ==
    Cardinality({i \in ErrorSources : measurements[i].ts = t})
    + Cardinality({i \in ViolationSources : measurements[i].ts = t})

FeedAt(t) == Cardinality({j \in DOMAIN history : Minute(history[j].created_at) = t})

MinOf(a, b) == IF a <= b THEN a ELSE b

\* C8: get_alert_history(limit, hours) returns, in descending created_at
\* order, the `limit` most recent items of the merged set of all sensor-error
\* items and all threshold-violation items of the time window, whatever the
\* table holds.
C8_HistoryIsMostRecentOfAll ==
    req.kind = "history" =>
        /\ \A j \in 1..(Len(history) - 1) :
              Minute(history[j].created_at) >= Minute(history[j + 1].created_at)
        /\ Len(history) =
              MinOf(req.limit, Cardinality(ErrorSources) + Cardinality(ViolationSources))
        /\ \A i \in DOMAIN measurements :
              LET t == measurements[i].ts
              IN  /\ FeedAt(t) <= MergedAt(t)
                  /\ (\E j \in DOMAIN history : Minute(history[j].created_at) < t)
                        => FeedAt(t) = MergedAt(t)

\* the threshold alerts check_for_anomalies builds for the rows rs
ThresholdAlerts(rs) ==
    {a \in {AlertsToInsert(rs)[j] : j \in DOMAIN AlertsToInsert(rs)} :
        a.alert_type \in {"value_below_threshold", "value_above_threshold"}}

\* C9: get_anomalies_by_threshold reports a violation for a measurement
\* exactly when check_for_anomalies emits a threshold alert for it, and with
\* the same severity: over a table it scans completely, its anomalies are the
\* monitor's threshold alerts.
C9_ServiceAgreesWithMonitor ==
    (req.kind = "anomalies" /\ req.limit >= Len(measurements)) =>
        {<<anomalies[j].sensor_name, anomalies[j].value, anomalies[j].severity>> :
            j \in DOMAIN anomalies}
        = {<<a.sensor_name, a.value, a.severity>> : a \in ThresholdAlerts(measurements)}

\* C10: the threshold table of the alert monitor and the threshold table of
\* alerts_service define the same sensor names with the same min and max.
C10_SameThresholdTables ==
    LET names == DOMAIN MONITOR_ALERT_THRESHOLDS \cup DOMAIN SERVICE_ALERT_THRESHOLDS
                 \cup {measurements[i].sensor_name : i \in DOMAIN measurements}
    IN  \A sensor \in names :
            /\ sensor \in DOMAIN MONITOR_ALERT_THRESHOLDS
                  <=> sensor \in DOMAIN SERVICE_ALERT_THRESHOLDS
            /\ (sensor \in DOMAIN MONITOR_ALERT_THRESHOLDS
                  /\ sensor \in DOMAIN SERVICE_ALERT_THRESHOLDS) =>
                  /\ MONITOR_ALERT_THRESHOLDS[sensor].min
                        = SERVICE_ALERT_THRESHOLDS[sensor].min
                  /\ MONITOR_ALERT_THRESHOLDS[sensor].max
                        = SERVICE_ALERT_THRESHOLDS[sensor].max

(***************************************************************************)
(* Properties of one inactivity check (checked under SpecInactive)         *)
(***************************************************************************)
\* the sensors (facade_id, sensor_name) with a reading in the table
SensorsOf(table) ==
    {<<table[i].facade_id, table[i].sensor_name>> : i \in DOMAIN table}

ReadingsOf(table, k) ==
    {table[i].ts : i \in {j \in DOMAIN table :
                            <<table[j].facade_id, table[j].sensor_name>> = k}}

\* the greatest ts among the readings of sensor k
LastSeen(table, k) ==
    CHOOSE t \in ReadingsOf(table, k) : \A u \in ReadingsOf(table, k) : u <= t

InactiveAlertsFor(k) ==
    {j \in DOMAIN alerts :
        /\ alerts[j].alert_type = "sensor_inactive"
        /\ <<alerts[j].facade_id, alerts[j].sensor_name>> = k}

\* C11: an inactivity check that runs without error inserts exactly one
\* sensor_inactive alert, of severity medium with null value and threshold,
\* for every (facade_id, sensor_name) whose most recent reading is older than
\* now - 10 minutes, and none for any other sensor: a reading exactly 10
\* minutes old, or younger, does not flag its sensor.
C11_InactiveSensorAlert ==
    (swPc = "cleanup" /\ done.inactive.result = "ok") =>
        /\ \A k \in SensorsOf(measurements) :
              Cardinality(InactiveAlertsFor(k)) =
                  IF LastSeen(measurements, k) < done.inactive.at - 10 THEN 1 ELSE 0
        /\ \A j \in DOMAIN alerts :
              alerts[j].alert_type = "sensor_inactive" =>
                  /\ alerts[j].severity = "medium"
                  /\ alerts[j].value = None
                  /\ alerts[j].threshold = None
                  /\ <<alerts[j].facade_id, alerts[j].sensor_name>>
                        \in SensorsOf(measurements)

\* a check has run over a sensor last seen 11 minutes before, which has its
\* alert, and a sensor last seen exactly 10 minutes before, which has none
C11_Witness ==
    /\ swPc = "cleanup"
    /\ done.inactive.result = "ok"
    /\ \E k, q \in SensorsOf(measurements) :
          /\ LastSeen(measurements, k) = done.inactive.at - 11
          /\ Cardinality(InactiveAlertsFor(k)) = 1
          /\ LastSeen(measurements, q) = done.inactive.at - 10
          /\ InactiveAlertsFor(q) = {}

(***************************************************************************)
(* Properties of the monitor's loop (checked under Spec)                   *)
(***************************************************************************)
\* C12: when the query or the insert of a check fails, the checks that are
\* due later in the same iteration still run (the inactivity check when 5
\* minutes of loop time have passed since the last one, the cleanup when a
\* day has) and the loop sleeps and starts its next iteration: the loop is
\* never left because a check failed.
C12_FailedCheckDoesNotStopSweep ==
    /\ [](swPc # "terminated")
    /\ [][/\ (swPc = "check_fetch" /\ swPc' # swPc) =>
                swPc' \in {"check_insert", "inactive"}
          /\ (swPc = "check_insert" /\ swPc' # swPc) => swPc' = "inactive"
          /\ swPc = "inactive" =>
                /\ swPc' \in {"inactive", "cleanup"}
                /\ (swPc' = "cleanup" /\ current_time - last_inactive_check >= 5) =>
                      /\ done'.inactive.n # done.inactive.n
                      /\ done'.inactive.result \in {"ok", "failed"}
          /\ swPc = "cleanup" =>
                /\ swPc' \in {"cleanup", "sleep"}
                /\ (swPc' = "sleep" /\ current_time - last_cleanup >= 1440) =>
                      /\ done'.cleanup.n # done.cleanup.n
                      /\ done'.cleanup.result \in {"ok", "failed"}
                /\ swPc' = "sleep" => wakeAt' = now + 1
          /\ (swPc = "sleep" /\ swPc' # swPc) => swPc' = "check_fetch"]_vars

\* the anomaly check and the inactivity check of one iteration have both
\* failed, the cleanup has run after them and the loop is in its sleep
C12_Witness ==
    /\ swPc = "sleep"
    /\ done.anomaly.result = "failed"
    /\ done.inactive.result = "failed"
    /\ done.cleanup.result = "ok"
    /\ wakeAt = now + 1

(***************************************************************************)
(* Properties of the durable write (checked under Spec)                    *)
(***************************************************************************)
\* C13 as stated: when the durable insert of a message fails, none of its
\* rows is in the table, handle_payload returns without raising and the loop
\* goes on consuming.
C13_InsertFailureReturns ==
    last.durable = "failed" =>
        /\ RowsOf(measurements, last.mid) = 0
        /\ last.raised = ""
        /\ last.next = "consuming"

\* C13: when the durable insert of a message fails, the failure is logged,
\* by handle_payload when it is a PostgresError and by the message loop of
\* main, to which handle_payload raises it, when it is another exception;
\* the rows of the message are dropped and never written later, the table
\* and the cache are left as they were, and the loop goes on consuming, so
\* that the writes of later messages are unaffected.
C13_InsertFailureDropsRows ==
    /\ [](last.durable = "failed" =>
            /\ RowsOf(measurements, last.mid) = 0
            /\ last.raised \in {"", "InterfaceError"}
            /\ last.next = "consuming")
    /\ [][(ingPc = "writing" /\ last'.durable = "failed") =>
            /\ measurements' = measurements
            /\ cache' = cache
            /\ ingPc' = "consuming"]_vars
    /\ [][/\ Len(measurements') >= Len(measurements)
          /\ \A i \in DOMAIN measurements' :
                i > Len(measurements) =>
                    /\ ingPc = "writing"
                    /\ measurements'[i].mid = cur.mid
                    /\ last'.durable = "inserted"]_vars

\* the insert of the second message has failed with an exception that is no
\* PostgresError: its cache update is in place, the rows of the first
\* message are still in the table, and the loop is consuming
C13_Witness ==
    /\ last.mid = 2
    /\ last.cache = "written"
    /\ last.durable = "failed"
    /\ last.raised = "InterfaceError"
    /\ ingPc = "consuming"
    /\ CacheKey(last.payload.facade_id) \in DOMAIN cache
    /\ RowsOf(measurements, 1) > 0
    /\ RowsOf(measurements, 2) = 0

\* C14: once handle_payload has dealt with a message with a valid timestamp
\* and a non-empty sensor mapping, its cache write and its insert not having
\* failed, the table holds exactly one row per sensor entry of the message,
\* in the order of the entries: the row of an entry whose raw value is a
\* number carries that number and the row of any other entry carries null.
C14_OneRowPerEntry ==
    (/\ last.decode = "proceed"
     /\ last.payload.data.t = "dict"
     /\ last.cache = "written"
     /\ last.durable \notin {"pending", "failed", "cancelled"}) =>
        LET d == last.payload.data.d
            mine == SelectSeq(measurements, LAMBDA r : r.mid = last.mid)
        IN  /\ Len(mine) = Len(d)
            /\ \A i \in DOMAIN mine :
                  /\ mine[i].sensor_name = d[i].k
                  /\ mine[i].value = IF d[i].v.t = "num" THEN Some(d[i].v.v) ELSE None

(***************************************************************************)
(* Properties of the connection of the ingestor (checked under SpecConn)   *)
(***************************************************************************)
\* C15: the wait between a failure of the connection and the next attempt
\* grows with the number of consecutive failures: the wait after the second
\* consecutive failure, and after every later one, is longer than the fixed
\* delay waited after the first.
C15_BackoffGrows ==
    (ingPc = "sleeping" /\ attempt >= 2) => delay > 5

\* C16: a run of the ingestor that ends by shutdown ends with the handling of
\* the message in flight completed and with the cache connection and the
\* pool of the durable store closed.
C16_ShutdownReleasesStores ==
    ingPc = "cancelled" =>
        /\ last.durable # "cancelled"
        /\ conns.redis = "closed"
        /\ conns.pool = "closed"

(***************************************************************************)
(* Properties of the cleanup (checked under SpecCleanup)                   *)
(***************************************************************************)
\* C17: a cleanup that runs without error removes exactly the alerts whose
\* created_at is more than 30 days before now, keeps every other alert in
\* place, and leaves the measurements as they are.
C17_CleanupRemovesOldAlertsOnly ==
    [][(swPc = "cleanup" /\ swPc' = "sleep" /\ done'.cleanup.result = "ok") =>
          /\ alerts' = SelectSeq(alerts,
                                 LAMBDA a : ~(a.created_at < now - 30 * 24 * 60))
          /\ measurements' = measurements]_vars

\* a cleanup has removed an alert aged 31 days and kept an alert aged exactly
\* 30 days and an alert aged 29 days, with a measurement in the store
C17_Witness ==
    /\ swPc = "sleep"
    /\ done.cleanup.result = "ok"
    /\ measurements # <<>>
    /\ \E i \in DOMAIN purged :
          purged[i].created_at = done.cleanup.at - 31 * 24 * 60
    /\ \E i, j \in DOMAIN alerts :
          /\ alerts[i].created_at = done.cleanup.at - 30 * 24 * 60
          /\ alerts[j].created_at = done.cleanup.at - 29 * 24 * 60

(***************************************************************************)
(* Properties of the cadences of the monitor (checked under SpecCadence)   *)
(***************************************************************************)
\* C18 as stated: two consecutive inactivity checks are executed at least 5
\* minutes apart, and two consecutive cleanups at least a day apart.
C18_ChecksApartInTime ==
    [][/\ (done'.inactive.n # done.inactive.n /\ done.inactive.at >= 0) =>
              done'.inactive.at - done.inactive.at >= 5
       /\ (done'.cleanup.n # done.cleanup.n /\ done.cleanup.at >= 0) =>
              done'.cleanup.at - done.cleanup.at >= 1440]_vars

\* minutes an iteration takes at most: its checks and its sleep
IterationMinutes == MaxCheckMinutes + SLEEP_MINUTES

\* enough of the run is left for an operation of interval d to become due
\* and be reached by the loop
Room(d) == now + d + 2 * IterationMinutes <= CadenceEnd

\* C18: the anomaly check is executed in every iteration of the loop, and
\* every iteration ends with one sleep of 60 seconds; an inactivity check is
\* executed only when the loop clock, read at the top of the iteration, is at
\* least 5 minutes past its reading in the iteration of the previous
\* inactivity check, and a cleanup only when it is at least a day past its
\* reading in the iteration of the previous cleanup; and each of the three
\* operations is executed again and again while the loop runs.
C18_CadencesOnLoopClock ==
    /\ [][/\ (swPc = "sleep" /\ swPc' # "sleep") =>
                swPc' = "check_fetch" /\ now >= wakeAt
          /\ (swPc # "sleep" /\ swPc' = "sleep") =>
                /\ done'.anomaly.result \in {"ok", "failed"}
                /\ done'.anomaly.at >= now - MaxCheckMinutes
                /\ wakeAt' = now + 1
          /\ done'.inactive.n # done.inactive.n =>
                /\ current_time - last_inactive_check >= 5
                /\ last_inactive_check' = current_time
          /\ done'.cleanup.n # done.cleanup.n =>
                /\ current_time - last_cleanup >= 1440
                /\ last_cleanup' = current_time
          /\ last_inactive_check' # last_inactive_check =>
                done'.inactive.n # done.inactive.n
          /\ last_cleanup' # last_cleanup =>
                done'.cleanup.n # done.cleanup.n]_vars
    /\ \A b \in {0, 1} :
          /\ (done.anomaly.n = b /\ Room(SLEEP_MINUTES)) ~> (done.anomaly.n # b)
          /\ (done.inactive.n = b /\ Room(5)) ~> (done.inactive.n # b)
          /\ (done.cleanup.n = b /\ Room(1440)) ~> (done.cleanup.n # b)

\* the second cleanup has just run, a day of loop time after the first, in
\* an iteration that ran the inactivity check as well
C18_Witness ==
    /\ swPc = "sleep"
    /\ done.cleanup.n = 0
    /\ done.cleanup.result = "ok"
    /\ done.inactive.result = "ok"
    /\ done.anomaly.result = "ok"
    /\ last_cleanup >= 2 * 1440
    /\ last_inactive_check = last_cleanup

(***************************************************************************)
(* The message of the worked example, from publication to alert (checked   *)
(* under Spec)                                                             *)
(***************************************************************************)
ExampleMessage == Envelope(TsMinute0, DataIrradiancia1600)

\* a row of facade 1 with Irradiancia = 1600
ExampleRow(r) ==
    /\ r.facade_id = "1"
    /\ r.device_id = "d1"
    /\ r.facade_type = "no_refrigerada"
    /\ r.sensor_name = "Irradiancia"
    /\ r.value = Some(1600)

ExampleAlert(a) ==
    /\ a.facade_id = "1"
    /\ a.sensor_name = "Irradiancia"
    /\ a.alert_type = "value_above_threshold"
    /\ a.severity = "critical"
    /\ a.value = Some(1600)
    /\ a.threshold = Some(1500)

\* the example message is the only message published, and both its writes
\* succeeded
ExampleStored ==
    /\ msgCount = 1
    /\ last.payload = ExampleMessage
    /\ last.cache = "written"
    /\ last.durable = "inserted"

ExampleInStores ==
    /\ Len(measurements) = 1
    /\ ExampleRow(measurements[1])
    /\ measurements[1].ts = 0
    /\ CacheKey("1") \in DOMAIN cache
    /\ DOMAIN cache[CacheKey("1")] = {"Irradiancia"}
    /\ cache[CacheKey("1")]["Irradiancia"].value = Num(1600)

\* C19 as stated: once the example message is stored and an anomaly check
\* has run over it without error, there are one durable row with value 1600,
\* one cache field for Irradiancia under facade 1 and exactly one
\* value_above_threshold alert of severity critical.
C19_ExampleYieldsOneAlert ==
    (ExampleStored /\ swPc = "inactive" /\ checkOk /\ tableAtFetch = measurements) =>
        /\ ExampleInStores
        /\ Cardinality({j \in DOMAIN alerts : ExampleAlert(alerts[j])}) = 1

\* C19: the example message, stored with both stores available, leaves one
\* durable row with value 1600 and one cache field for Irradiancia under
\* facade 1, and all alerts of the anomaly checks are value_above_threshold
\* alerts of severity critical with threshold 1500; an anomaly check that
\* runs without error over such a row adds one such alert when the ts of the
\* row is at most 5 minutes before the NOW() of its query, and none
\* otherwise.
C19_ExampleAlertedInWindow ==
    /\ [](ExampleStored =>
            /\ ExampleInStores
            /\ \A j \in DOMAIN alerts :
                  alerts[j].alert_type # "sensor_inactive" => ExampleAlert(alerts[j]))
    /\ [][(/\ swPc = "check_insert"
           /\ swPc' = "inactive"
           /\ checkOk'
           /\ Len(tableAtFetch) = 1
           /\ ExampleRow(tableAtFetch[1])) =>
              IF tableAtFetch[1].ts >= fetchedAt - 5
              THEN /\ Len(alerts') = Len(alerts) + 1
                   /\ SubSeq(alerts', 1, Len(alerts)) = alerts
                   /\ ExampleAlert(alerts'[Len(alerts')])
              ELSE alerts' = alerts]_vars

\* the example message was stored and the anomaly check that ran over it
\* within 5 minutes of its ts has inserted its alert
C19_Witness ==
    /\ ExampleStored
    /\ ExampleInStores
    /\ swPc = "inactive"
    /\ checkOk
    /\ tableAtFetch = measurements
    /\ Cardinality({j \in DOMAIN alerts : ExampleAlert(alerts[j])}) = 1

(***************************************************************************)
(* Alerts over successive runs of the checks (checked under SpecRepeat)    *)
(***************************************************************************)
\* the reading is invalid, or violates the rule of its sensor
Anomalous(r) ==
    \/ Invalid(r)
    \/ /\ r.sensor_name \in DOMAIN MONITOR_ALERT_THRESHOLDS
       /\ \/ Val(r.value) < MONITOR_ALERT_THRESHOLDS[r.sensor_name].min
          \/ Val(r.value) > MONITOR_ALERT_THRESHOLDS[r.sensor_name].max

AlertsOfType(table, r, types) ==
    {j \in DOMAIN table :
        /\ table[j].facade_id = r.facade_id
        /\ table[j].sensor_name = r.sensor_name
        /\ table[j].alert_type \in types}

\* C20: alerts are not deduplicated across runs: every anomaly check that
\* runs without error adds one alert row for each anomalous measurement that
\* is inside its 5-minute window, and every inactivity check that runs
\* without error adds one sensor_inactive row for each sensor last seen more
\* than 10 minutes before, whatever alerts the store already holds.
C20_OneAlertPerOccurrence ==
    /\ [][(swPc = "check_insert" /\ swPc' = "inactive" /\ checkOk') =>
            /\ Len(alerts') = Len(alerts) +
                  Cardinality({i \in DOMAIN tableAtFetch :
                                  /\ tableAtFetch[i].ts >= fetchedAt - 5
                                  /\ Anomalous(tableAtFetch[i])})
            /\ SubSeq(alerts', 1, Len(alerts)) = alerts
            /\ \A j \in DOMAIN alerts' :
                  j > Len(alerts) =>
                      /\ alerts'[j].alert_type # "sensor_inactive"
                      /\ alerts'[j].created_at = now]_vars
    /\ [][(swPc = "inactive" /\ swPc' = "cleanup" /\ done'.inactive.result = "ok") =>
            /\ Len(alerts') = Len(alerts) +
                  Cardinality({k \in SensorsOf(measurements) :
                                  LastSeen(measurements, k) < now - 10})
            /\ SubSeq(alerts', 1, Len(alerts)) = alerts
            /\ \A j \in DOMAIN alerts' :
                  j > Len(alerts) =>
                      /\ alerts'[j].alert_type = "sensor_inactive"
                      /\ alerts'[j].created_at = now]_vars

\* the same reading has been inside the window of three anomaly checks and
\* has three alert rows, and the same silent sensor has been found by two
\* inactivity checks and has two sensor_inactive rows
C20_Witness ==
    /\ \E i \in DOMAIN measurements :
          /\ Anomalous(measurements[i])
          /\ Cardinality(AlertsOfType(alerts, measurements[i], {"sensor_error"})) >= 3
    /\ \E i \in DOMAIN measurements :
          Cardinality(AlertsOfType(alerts, measurements[i], {"sensor_inactive"})) = 2

(***************************************************************************)
(* Properties of the cache (checked under Spec)                            *)
(***************************************************************************)
\* the sensors of a payload whose data is a mapping
SensorNames(payload) == {payload.data.d[i].k : i \in DOMAIN payload.data.d}

\* the raw value the payload gives for sensor k
RawValue(payload, k) ==
    (CHOOSE it \in {payload.data.d[i] : i \in DOMAIN payload.data.d} : it.k = k).v

\* the minute the ts text of the cache entry denotes: the ts of the payload,
\* or the time of handling when the payload has none
EntryMinute(payload, t) == IF payload.ts.t = "absent" THEN t ELSE payload.ts.mm

HashOf(c, key) == IF key \in DOMAIN c THEN c[key] ELSE <<>>

\* C21: the cache holds one hash per facade with one entry per sensor name.
\* A message whose cache write is made sets the entry of every sensor it
\* contains to its own reading, whatever the ts of the entry replaced, and
\* leaves the entries of the other sensors and of the other facades as they
\* were; nothing else changes the cache.
C21_CacheLastWriteWins ==
    [][IF msgCount' = msgCount + 1 /\ last'.cache = "written"
       THEN LET p == last'.payload
                key == CacheKey(p.facade_id)
            IN  /\ DOMAIN cache' = DOMAIN cache \cup {key}
                /\ \A other \in DOMAIN cache : other # key => cache'[other] = cache[other]
                /\ DOMAIN cache'[key] = DOMAIN HashOf(cache, key) \cup SensorNames(p)
                /\ \A k \in SensorNames(p) :
                      /\ cache'[key][k].value = RawValue(p, k)
                      /\ cache'[key][k].ts.mm = EntryMinute(p, now)
                      /\ cache'[key][k].ts.sfx = "+00:00"
                      /\ cache'[key][k].device_id = p.device_id
                      /\ cache'[key][k].facade_type = p.facade_type
                /\ \A k \in DOMAIN HashOf(cache, key) \ SensorNames(p) :
                      cache'[key][k] = cache[key][k]
       ELSE cache' = cache]_vars

\* the second message, whose ts is minute 0, has replaced the entry that the
\* first message wrote for Irradiancia with a later ts, and the entry of
\* Otro, which the second message does not contain, is still that of the first
C21_Witness ==
    /\ last.mid = 2
    /\ last.cache = "written"
    /\ last.payload = Envelope(TsMinute0, DataIrradiancia1600)
    /\ CacheKey("1") \in DOMAIN cache
    /\ DOMAIN cache[CacheKey("1")] = {"Irradiancia", "Otro"}
    /\ cache[CacheKey("1")]["Irradiancia"].value = Num(1600)
    /\ cache[CacheKey("1")]["Irradiancia"].ts.mm = 0
    /\ cache[CacheKey("1")]["Otro"].ts.mm >= FirstMinute

(***************************************************************************)
(* Decoding the same raw message again (checked under SpecDecode)          *)
(***************************************************************************)
Tuple(r) ==
    <<r.facade_id, r.device_id, r.facade_type, r.sensor_name, r.value, r.ts>>

TuplesOf(m) == {Tuple(measurements[i]) : i \in {j \in DOMAIN measurements :
                                                  measurements[j].mid = m}}

\* C22: two runs of handle_payload on the same raw message write the same
\* (facade_id, device_id, facade_type, sensor_name, value, ts) tuples: all
\* deliveries of the message that reached the table have the same tuples.
C22_DecodeIdempotent ==
    \A i, j \in DOMAIN measurements :
        TuplesOf(measurements[i].mid) = TuplesOf(measurements[j].mid)

(***************************************************************************)
(* Properties of the aggregated history (checked under SpecFeed)           *)
(***************************************************************************)
\* the measurement is outside the range the service has for its sensor
OutOfServiceRange(r) ==
    /\ ~IsNone(r.value)
    /\ r.sensor_name \in DOMAIN SERVICE_ALERT_THRESHOLDS
    /\ \/ Val(r.value) < SERVICE_ALERT_THRESHOLDS[r.sensor_name].min
       \/ Val(r.value) > SERVICE_ALERT_THRESHOLDS[r.sensor_name].max

\* the item reports the measurement r
ItemOf(item, r) ==
    /\ item.facade_id = r.facade_id
    /\ item.facade_type = r.facade_type
    /\ item.device_id = r.device_id
    /\ item.sensor_name = r.sensor_name
    /\ item.created_at = <<r.ts \div 10, r.ts % 10>>
    /\ \/ item.type = "sensor_error" /\ Invalid(r) /\ item.severity = "critical"
       \/ item.type = "threshold_exceeded" /\ OutOfServiceRange(r)

\* C23: the history is made from the measurements alone: whatever the alerts
\* table holds when get_alert_history is called, every item of the feed
\* reports a measurement of the table that is invalid or out of range, as
\* sensor_error or threshold_exceeded, no two items report the same
\* measurement under the same type more often than the table holds it, no
\* measurement has an item because of an alert stored for it, and the call
\* leaves both tables as they are.
C23_HistoryFromMeasurementsOnly ==
    [][(req.kind = "none" /\ req'.kind = "history") =>
          /\ \A i \in DOMAIN history' :
                /\ history'[i].type \in {"sensor_error", "threshold_exceeded"}
                /\ \E j \in DOMAIN measurements : ItemOf(history'[i], measurements[j])
                /\ Cardinality({k \in DOMAIN history' : history'[k] = history'[i]})
                      <= Cardinality({j \in DOMAIN measurements :
                                         ItemOf(history'[i], measurements[j])})
          /\ alerts' = alerts
          /\ measurements' = measurements]_vars

\* the history was requested while the alerts table held a sensor_inactive
\* alert of an earlier check and the alerts of the check that just ran, and
\* the feed has the invalid and the out-of-range measurement of the table
C23_Witness ==
    /\ req.kind = "history"
    /\ \E i \in DOMAIN alerts : alerts[i].alert_type = "sensor_inactive"
    /\ \E i \in DOMAIN alerts : alerts[i].created_at = FirstMinute + 1
    /\ \E i, j \in DOMAIN history :
          /\ history[i].type = "sensor_error"
          /\ history[j].type = "threshold_exceeded"

(***************************************************************************)
(* Properties of GET /alerts/history (checked under SpecEndpoint)          *)
(***************************************************************************)
\* C24 as stated: every answer of GET /alerts/history has status 200, with
\* count the number of items of alerts and at most limit, or status 500.
C24_TwoOutcomes ==
    response.kind = "history" =>
        \/ /\ response.status = 200
           /\ response.count = Len(response.alerts)
           /\ response.count <= req.limit
        \/ response.status = 500

\* C24: a request whose limit is in 1..1000 and whose hours is in 1..2160 is
\* answered with status 200 and a feed when the aggregator returns, count
\* being the number of items of alerts and at most limit, and with status
\* 500 and no feed when the aggregator fails at any point; a request with
\* limit or hours outside these ranges is answered with status 422.
C24_OutcomesOfHistory ==
    response.kind = "history" =>
        IF 1 <= req.limit /\ req.limit <= 1000 /\ 1 <= req.hours /\ req.hours <= 2160
        THEN \/ /\ response.status = 200
                /\ response.fail = "none"
                /\ response.count = Len(response.alerts)
                /\ response.count <= req.limit
                /\ response.alerts = history
             \/ /\ response.status = 500
                /\ response.fail # "none"
                /\ DOMAIN response = {"kind", "status", "fail"}
        ELSE response.status = 422

\* the anomaly query failed after the error query had returned an item, and
\* the answer is a 500
C24_Witness ==
    /\ response.kind = "history"
    /\ response.status = 500
    /\ response.fail = "anomaly_query"
    /\ \E i \in DOMAIN measurements : Invalid(measurements[i])

(***************************************************************************)
(* C25                                                                     *)
(***************************************************************************)
\* C25: a call of invalidate_facade_cache without a facade_type that returns
\* its confirmation message leaves no cached reading of the facade: the hash
\* the ingestor wrote for the facade is gone, so that get_latest_facade of
\* the facade reports no data.
C25_InvalidationRemovesFacade ==
    [][\A facade_id \in FacadeIdInputs :
          InvalidateFacadeCacheCall(facade_id, "", TRUE, TRUE) =>
              /\ HashOf(cache', CacheKey(facade_id)) = <<>>
              /\ ControllerKey(facade_id, "") \notin DOMAIN cache']_vars

(***************************************************************************)
(* C26                                                                     *)
(***************************************************************************)
\* C26: every rule of the monitor's threshold table has min <= 0, and a
\* negative value becomes a sensor_error before the threshold comparison, so
\* the alerts the monitor builds and the alerts in the store are never of
\* type value_below_threshold: the only types are sensor_error,
\* value_above_threshold and sensor_inactive.
C26_NoBelowThresholdAlert ==
    /\ \A s \in DOMAIN MONITOR_ALERT_THRESHOLDS : MONITOR_ALERT_THRESHOLDS[s].min <= 0
    /\ \A i \in DOMAIN alerts_to_insert :
          alerts_to_insert[i].alert_type \in {"sensor_error", "value_above_threshold"}
    /\ \A i \in DOMAIN alerts :
          alerts[i].alert_type \in
              {"sensor_error", "value_above_threshold", "sensor_inactive"}

\* the store holds the alert of a reading below the minimum of its rule
\* (Irradiancia -1, minimum 0), a sensor_error, next to an alert of a reading
\* above the maximum
C26_Witness ==
    /\ \E i \in DOMAIN alerts :
          /\ alerts[i].sensor_name = "Irradiancia"
          /\ alerts[i].value = Some(-1)
          /\ Val(alerts[i].value) < MONITOR_ALERT_THRESHOLDS["Irradiancia"].min
          /\ alerts[i].alert_type = "sensor_error"
    /\ \E i \in DOMAIN alerts : alerts[i].alert_type = "value_above_threshold"

(***************************************************************************)
(* C27                                                                     *)
(***************************************************************************)
\* C27: within one feed returned by get_alert_history, two items of
\* different sensors or of different measurements never carry the same id,
\* two sensors of one device reporting in the same message included.
C27_FeedIdsUnique ==
    req.kind = "history" =>
        \A i, j \in DOMAIN history :
            (i # j /\ history[i] # history[j]) => history[i].id # history[j].id

(***************************************************************************)
(* C28                                                                     *)
(***************************************************************************)
\* C28: the ingestor handles messages strictly one at a time in arrival
\* order: a message is taken only when no handle_payload call is in progress
\* and the durable write of the previous message is over; rows are inserted
\* only by the call of the latest message, so the rows of message n precede
\* the rows of message n+1; and the cache is overwritten only by the message
\* that has just arrived.
C28_OneMessageAtATime ==
    /\ [][msgCount' = msgCount + 1 =>
            /\ ingPc = "consuming"
            /\ cur = NoCall
            /\ last.durable # "pending"
            /\ last'.mid = msgCount + 1]_vars
    /\ [][measurements' # measurements =>
            /\ ingPc = "writing"
            /\ cur.mid = msgCount
            /\ msgCount' = msgCount
            /\ \A i \in (Len(measurements) + 1)..Len(measurements') :
                  measurements'[i].mid = msgCount]_vars
    /\ [][cache' # cache => (msgCount' = msgCount + 1 /\ last'.cache = "written")]_vars
    /\ [](\A i, j \in DOMAIN measurements :
            i < j => measurements[i].mid <= measurements[j].mid)

\* two messages have been handled, both wrote the cache and both inserted
\* rows, those of the first before those of the second
C28_Witness ==
    /\ msgCount = 2
    /\ ingPc = "consuming"
    /\ last.cache = "written"
    /\ last.durable = "inserted"
    /\ \E i, j \in DOMAIN measurements :
          /\ i < j
          /\ measurements[i].mid = 1
          /\ measurements[j].mid = 2

(***************************************************************************)
(* C29                                                                     *)
(***************************************************************************)
\* C29: after the ingestor has written a reading of a facade of some
\* facade_type, get_latest_facade and get_sensor_value called with that
\* facade_type return the reading the ingestor wrote: the hash of the
\* facade, and the entry of the sensor.
C29_ReadersAddressIngestorKey ==
    [][\A facade_id \in FacadeIdInputs, facade_type \in FacadeTypeInputs \ {""} :
          LET hash == HashOf(cache, CacheKey(facade_id))
          IN  /\ ( /\ GetLatestFacadeCall(facade_id, facade_type, TRUE, TRUE)
                   /\ hash # <<>>
                   /\ \A k \in DOMAIN hash : hash[k].facade_type = facade_type )
                  => response'.data = Some(hash)
              /\ \A sensor_name \in SensorNameInputs :
                    ( /\ GetSensorValueCall(facade_id, sensor_name, facade_type,
                                            TRUE, TRUE)
                      /\ sensor_name \in DOMAIN hash
                      /\ hash[sensor_name].facade_type = facade_type )
                    => response'.value = Some(hash[sensor_name])]_vars

(***************************************************************************)
(* C30                                                                     *)
(***************************************************************************)
\* the value of a cache entry and the value of a durable row are the same:
\* the same number, or null in both
SameValue(cached, stored) ==
    IF IsNone(stored) THEN cached.t = "null"
    ELSE cached.t = "num" /\ cached.v = Val(stored)

\* C30: when both writes of a message have succeeded, every row inserted for
\* it has a cache entry with the same value and the same instant: the same
\* number, and null in the cache where the row holds null because the raw
\* value was not numeric.
C30_StoresAgree ==
    (last.cache = "written" /\ last.durable = "inserted") =>
        \A i \in DOMAIN measurements :
            LET r == measurements[i]
                hash == HashOf(cache, CacheKey(r.facade_id))
            IN  r.mid = last.mid =>
                    /\ r.sensor_name \in DOMAIN hash
                    /\ SameValue(hash[r.sensor_name].value, r.value)
                    /\ FromIsoFormat(hash[r.sensor_name].ts).ok
                    /\ FromIsoFormat(hash[r.sensor_name].ts).dt = r.ts

====
